---------------------------- MODULE Spec2Model ----------------------------
(***************************************************************************)
(* A model of agent-rules' core engine (src/src/core.ts): the path and     *)
(* text utilities, the tree builder (ensureNode, appendDirectoryToTree),   *)
(* the tree sorter (sortTreeChildren), the renderer (renderTree) and the   *)
(* block orchestrator (generateForBlock), and of the command line's main   *)
(* (src/src/cli.ts): configuration validation and the generation loop.     *)
(*                                                                         *)
(* A JavaScript string is a sequence of one-character strings, so that     *)
(* prefix matching, normalisation, title-casing and rendering are computed *)
(* character by character as the code computes them.  An optional value    *)
(* (x?: T) is the empty set when undefined and {v} when it holds v.        *)
(***************************************************************************)
EXTENDS Integers, Sequences, FiniteSets, TLC

VARIABLES
    block,      \* generateForBlock: the GenerationBlock being generated
    pc,         \* generateForBlock: the position in the function body
    i,          \* generateForBlock: index of the next source of block.rulesDir
    tree,       \* the shared Map<string, SectionNode>, keyed by folder path
    markdown,   \* generateForBlock: the rendered text (undefined until rendered)
    written,    \* the output files written so far, in order: <<name, content>>
    warnings,   \* the number of console.warn calls so far
    call,       \* pure-function harness: the arguments and result of one call
    fs,         \* the file system: each directory's existence and entries
    config,     \* main: the value JSON.parse returned
    blocks,     \* main: the validated blocks the generation loop runs over
    cliPc,      \* main: the position in the function body ("none": not run)
    index,      \* main: how many blocks generateForBlock was invoked for
    exitCode,   \* process.exitCode (0 while it is undefined)
    ioErrors    \* how many file-system calls have been rejected so far

cliVars == <<config, blocks, cliPc, index, exitCode, ioErrors>>

vars == <<block, pc, i, tree, markdown, written, warnings, call, fs, cliVars>>

(***************************************************************************)
(* Strings                                                                 *)
(***************************************************************************)
None == {}

Some(v) == {v}

Get(opt) == CHOOSE v \in opt : TRUE

SLASH == <<"/">>

NL == <<"\n">>

SPACE == <<" ">>

RECURSIVE Repeat(_, _)
Repeat(s, n) == IF n <= 0 THEN <<>> ELSE s \o Repeat(s, n - 1)

\* String.prototype.startsWith
StartsWith(s, p) == Len(p) <= Len(s) /\ SubSeq(s, 1, Len(p)) = p

\* String.prototype.includes
Includes(s, pat) == \E k \in 1..(Len(s) - Len(pat) + 1) : SubSeq(s, k, k + Len(pat) - 1) = pat

\* String.prototype.replaceAll with a string pattern: left to right, non-overlapping
RECURSIVE ReplaceAll(_, _, _)
ReplaceAll(s, pat, rep) ==
    IF Len(s) < Len(pat) \/ Len(s) = 0 THEN s
    ELSE IF StartsWith(s, pat)
         THEN rep \o ReplaceAll(SubSeq(s, Len(pat) + 1, Len(s)), pat, rep)
         ELSE <<Head(s)>> \o ReplaceAll(Tail(s), pat, rep)

IsSpace(c) == c \in {" ", "\n", "\t"}

RECURSIVE TrimStart(_)
TrimStart(s) == IF Len(s) > 0 /\ IsSpace(Head(s)) THEN TrimStart(Tail(s)) ELSE s

RECURSIVE TrimEnd(_)
TrimEnd(s) == IF Len(s) > 0 /\ IsSpace(s[Len(s)]) THEN TrimEnd(SubSeq(s, 1, Len(s) - 1)) ELSE s

TrimEverywhere(s) ==
    LET NoSpace(c) == ~IsSpace(c)
    IN  SelectSeq(s, NoSpace)

\* String.prototype.trim
Trim(s) == TrimEnd(TrimStart(s))

\* String.prototype.split(sep) for a one-character separator: empty pieces are kept
RECURSIVE SplitOn(_, _, _)
SplitOn(s, sep, cur) ==
    IF Len(s) = 0 THEN <<cur>>
    ELSE IF Head(s) = sep THEN <<cur>> \o SplitOn(Tail(s), sep, <<>>)
         ELSE SplitOn(Tail(s), sep, Append(cur, Head(s)))

Split(s, sep) == SplitOn(s, sep, <<>>)

\* Array.prototype.join
RECURSIVE Join(_, _)
Join(parts, sep) ==
    IF Len(parts) = 0 THEN <<>>
    ELSE IF Len(parts) = 1 THEN parts[1]
         ELSE parts[1] \o sep \o Join(Tail(parts), sep)

LowerLetters == <<"a", "b", "d", "e", "i", "m", "n", "x", "y">>

UpperLetters == <<"A", "B", "D", "E", "I", "M", "N", "X", "Y">>

LetterIndex(c, letters) == CHOOSE k \in 1..Len(letters) : letters[k] = c

IsLower(c) == \E k \in 1..Len(LowerLetters) : LowerLetters[k] = c

IsUpper(c) == \E k \in 1..Len(UpperLetters) : UpperLetters[k] = c

ToUpperChar(c) == IF IsLower(c) THEN UpperLetters[LetterIndex(c, LowerLetters)] ELSE c

ToLowerChar(c) == IF IsUpper(c) THEN LowerLetters[LetterIndex(c, UpperLetters)] ELSE c

\* String.prototype.toLowerCase
ToLowerCase(s) == [k \in 1..Len(s) |-> ToLowerChar(s[k])]

\* String.prototype.toUpperCase
ToUpperCase(s) == [k \in 1..Len(s) |-> ToUpperChar(s[k])]

(***************************************************************************)
(* String.prototype.localeCompare, as the ICU root collation computes it   *)
(* on the characters used here: strings are compared on their primary      *)
(* weights first (punctuation before letters, a letter's case ignored),    *)
(* and only if those are equal on case, lower case first.                  *)
(***************************************************************************)
CollationOrder == <<"_", "-", ".", "a", "b", "d", "e", "i", "m", "n", "x", "y">>

PrimaryWeight(c) == CHOOSE k \in 1..Len(CollationOrder) : CollationOrder[k] = ToLowerChar(c)

TertiaryWeight(c) == IF IsUpper(c) THEN 1 ELSE 0

\* -1, 0 or 1: the lexicographic comparison of two sequences of numbers
RECURSIVE CompareWeights(_, _)
CompareWeights(a, b) ==
    IF Len(a) = 0 /\ Len(b) = 0 THEN 0
    ELSE IF Len(a) = 0 THEN -1
    ELSE IF Len(b) = 0 THEN 1
    ELSE IF a[1] < b[1] THEN -1
    ELSE IF a[1] > b[1] THEN 1
    ELSE CompareWeights(Tail(a), Tail(b))

localeCompare(a, b) ==
    LET p == CompareWeights([k \in 1..Len(a) |-> PrimaryWeight(a[k])],
                            [k \in 1..Len(b) |-> PrimaryWeight(b[k])])
    IN  IF p # 0 THEN p
        ELSE CompareWeights([k \in 1..Len(a) |-> TertiaryWeight(a[k])],
                            [k \in 1..Len(b) |-> TertiaryWeight(b[k])])

(***************************************************************************)
(* Path/Text utilities                                                     *)
(***************************************************************************)
RECURSIVE CollapseSlashes(_)
CollapseSlashes(out) ==
    IF Includes(out, <<"/", "/">>)
    THEN CollapseSlashes(ReplaceAll(out, <<"/", "/">>, SLASH))
    ELSE out

\* The pattern of the first replaceAll is the two-character string of two
\* backslashes: the literal '\\\\' of the source.
toPosix(filePath) == CollapseSlashes(ReplaceAll(filePath, <<"\\", "\\">>, SLASH))

IsWordBreak(c) == IsSpace(c) \/ c \in {"-", "_"}

\* The words of titleCase: runs of [-_] become a space, then split(/\s+/).filter(Boolean)
RECURSIVE TitleWords(_, _)
TitleWords(s, cur) ==
    IF Len(s) = 0 THEN (IF Len(cur) = 0 THEN <<>> ELSE <<cur>>)
    ELSE IF IsWordBreak(Head(s))
         THEN (IF Len(cur) = 0 THEN <<>> ELSE <<cur>>) \o TitleWords(Tail(s), <<>>)
         ELSE TitleWords(Tail(s), Append(cur, Head(s)))

Capitalize(w) == <<ToUpperChar(w[1])>> \o ToLowerCase(Tail(w))

titleCase(input) ==
    LET words == TitleWords(input, <<>>)
    IN  Join([k \in 1..Len(words) |-> Capitalize(words[k])], SPACE)

RECURSIVE StripLeading(_, _)
StripLeading(s, c) == IF Len(s) > 0 /\ Head(s) = c THEN StripLeading(Tail(s), c) ELSE s

\* .replace(/^\.\/+/, ''): a leading "." followed by one or more "/"
StripDotSlash(s) ==
    IF Len(s) >= 2 /\ s[1] = "." /\ s[2] = "/" THEN StripLeading(Tail(s), "/") ELSE s

NormalizePrefix(prefix) == StripLeading(StripDotSlash(toPosix(Trim(prefix))), "/")

RECURSIVE FilterNonEmpty(_)
FilterNonEmpty(list) ==
    IF Len(list) = 0 THEN <<>>
    ELSE IF Len(list[1]) > 0 THEN <<list[1]>> \o FilterNonEmpty(Tail(list))
         ELSE FilterNonEmpty(Tail(list))

normalizePrefixes(prefixes) ==
    FilterNonEmpty([k \in 1..Len(prefixes) |-> NormalizePrefix(prefixes[k])])

relStartsWithSubstring(relativePath, prefix) == StartsWith(relativePath, prefix)

\* path.posix.sep is "/", so the third disjunct of the source repeats the second
relStartsWith(relativePath, prefix) ==
    \/ relativePath = prefix
    \/ StartsWith(relativePath, prefix \o SLASH)
    \/ StartsWith(relativePath, prefix \o SLASH)

(***************************************************************************)
(* The filesystem the sources point at.  A file is what gray-matter        *)
(* returns for it: the front matter's enabled ("true", "false" or "unset") *)
(* and order (a number, or undefined) and the body below the front matter. *)
(***************************************************************************)
MD == <<".", "m", "d">>

INDEX == <<"_", "i", "n", "d", "e", "x">>

File(rel, enabled, order, content) ==
    [rel |-> rel, enabled |-> enabled, order |-> order, content |-> content]

\* The shared library: an ordered section x with rules a and B and a rule y
\* of a lower order, a subsection x/y, a root rule, and an entry that is no
\* Markdown file.
DirShared ==
    << File(<<"x", "/">> \o INDEX \o MD, "unset", Some(1), <<" ", "1", "\n">>),
       File(<<"x", "/", "a">> \o MD, "unset", None, <<"1">>),
       File(<<"x", "/", "B">> \o MD, "true", None, <<"1", "\n", "\n", "1">>),
       File(<<"x", "/", "y">> \o MD, "unset", Some(-1), <<"1">>),
       File(<<"x", "/", "y", "/", "a", "-", "b">> \o MD, "unset", Some(1), <<"1">>),
       File(<<"a">> \o MD, "unset", Some(1), <<"1">>),
       File(<<"x", "/", "a", ".", "d">>, "unset", None, <<"1">>) >>

\* The project: disables the index of x and rule B, replaces rule a of x by a
\* file whose extension is upper case, adds a section xy and a root index.
DirProject ==
    << File(INDEX \o MD, "unset", None, <<"2">>),
       File(<<"x", "/">> \o INDEX \o MD, "false", Some(0), <<"2">>),
       File(<<"x", "/", "a", ".", "M", "D">>, "unset", Some(1), <<"2">>),
       File(<<"x", "/", "B">> \o MD, "false", None, <<"2">>),
       File(<<"x", "y", "/", "a">> \o MD, "unset", None, <<>>),
       File(<<"x", "/", "y", "/">> \o INDEX \o MD, "unset", Some(0), <<"2">>) >>

\* A third directory: the same rule a of x once more, disabled, a rule b, an
\* index of x whose name is upper case, and an unordered section B.
DirLocal ==
    << File(<<"x", "/", "b">> \o MD, "unset", Some(0), <<"3">>),
       File(<<"x", "/", "a">> \o MD, "false", Some(1), <<"3">>),
       File(<<"x", "/", "_", "I", "N", "D", "E", "X">> \o MD, "unset", None, <<"3">>),
       File(<<"B", "/", "a">> \o MD, "unset", None, <<"3">>),
       File(<<"a">> \o MD, "unset", None, <<"3">>) >>

\* A deep directory: folders down to depth 6, indexes at depths 1, 4 and 5
\* (the last one blank), sections y and b beside x, a folder x/_ with a
\* rule and an index whose name title-cases to the empty string, and a
\* folder d whose only file is a disabled rule, above a folder d/e whose only
\* file is a disabled index.
DirDeep ==
    << File(<<"y", "/">> \o INDEX \o MD, "unset", Some(1), <<"4">>),
       File(<<"b", "/", "a">> \o MD, "unset", None, <<>>),
       File(<<"x", "/", "y", "/", "x", "/", "y", "/", "x", "/", "y", "/", "a">> \o MD,
            "unset", None, <<"4">>),
       File(<<"x", "/", "y", "/", "x", "/", "y", "/">> \o INDEX \o MD, "unset", None, <<"4">>),
       File(<<"x", "/", "y", "/", "x", "/", "a">> \o MD, "unset", Some(2), <<"4">>),
       File(<<"x", "/", "_", "/", "a">> \o MD, "unset", None, <<"4">>),
       File(<<"x", "/", "_", "/">> \o INDEX \o MD, "unset", None, <<"4">>),
       File(<<"x", "/", "y", "/", "x", "/", "y", "/", "x", "/">> \o INDEX \o MD,
            "unset", None, <<" ">>),
       File(<<"d", "/", "a">> \o MD, "false", None, <<"4">>),
       File(<<"d", "/", "e", "/">> \o INDEX \o MD, "false", Some(1), <<"4">>) >>

\* fs: each directory path with whether it exists and, in the order readdir
\* lists them, the files below it
InitialDisk ==
    [shared  |-> [exists |-> TRUE, entries |-> DirShared],
     project |-> [exists |-> TRUE, entries |-> DirProject],
     local   |-> [exists |-> TRUE, entries |-> DirLocal],
     deep    |-> [exists |-> TRUE, entries |-> DirDeep],
     missing |-> [exists |-> FALSE, entries |-> <<>>],
     out     |-> [exists |-> FALSE, entries |-> <<>>]]

Disk == fs

\* fs.mkdir(dir, { recursive: true })
mkdir(disk, dir) == [disk EXCEPT ![dir].exists = TRUE]

\* The entries of a directory after a file is written: a file of that name
\* is replaced where it stands, a new one is listed last
WriteEntry(entries, file) ==
    IF \E k \in 1..Len(entries) : entries[k].rel = file.rel
    THEN [k \in 1..Len(entries) |-> IF entries[k].rel = file.rel THEN file ELSE entries[k]]
    ELSE Append(entries, file)

\* fs.mkdir(path.dirname(outPath), { recursive: true }); fs.writeFile(outPath, text):
\* the text starts with no front matter, so gray-matter reads it back as
\* content without enabled or order
writeFile(disk, dir, name, text) ==
    [disk EXCEPT ![dir] = [exists |-> TRUE,
                           entries |-> WriteEntry(@.entries, File(name, "unset", None, text))]]

pathExists(p) == Disk[p].exists

EndsWith(s, suffix) ==
    Len(suffix) <= Len(s) /\ SubSeq(s, Len(s) - Len(suffix) + 1, Len(s)) = suffix

BaseOf(rel) == LET segs == Split(rel, "/") IN segs[Len(segs)]

\* entry.isFile() && entry.name.toLowerCase().endsWith('.md')
IsMarkdownEntry(entry) == EndsWith(ToLowerCase(BaseOf(entry.rel)), MD)

RECURSIVE MarkdownEntries(_)
\* The entries the walk pushes to results, in the order it meets them
MarkdownEntries(entries) ==
    IF Len(entries) = 0 THEN <<>>
    ELSE IF IsMarkdownEntry(entries[1]) THEN <<entries[1]>> \o MarkdownEntries(Tail(entries))
         ELSE MarkdownEntries(Tail(entries))

walkAllMarkdownFiles(rootAbs) == MarkdownEntries(Disk[rootAbs].entries)

(***************************************************************************)
(* Source normalizer.  A string-or-array value of the configuration is     *)
(* [isArray |-> FALSE, value |-> string] or [isArray |-> TRUE, value |->   *)
(* array of strings].                                                      *)
(***************************************************************************)
Str(s) == [isArray |-> FALSE, value |-> s]

Arr(a) == [isArray |-> TRUE, value |-> a]

ensureArray(value) == IF value.isArray THEN value.value ELSE <<value.value>>

normalizeRulesSource(source) ==
    LET raw == ensureArray(source.includes)
        includesRaw == [k \in 1..Len(raw) |-> Trim(raw[k])]
        includesAll == Len(includesRaw) = 1 /\ includesRaw[1] = <<"*">>
        exc == IF source.excludes = None THEN <<>> ELSE ensureArray(Get(source.excludes))
        excludesRaw == [k \in 1..Len(exc) |-> Trim(exc[k])]
    IN  [pathAbs |-> source.path,
         includesAll |-> includesAll,
         includes |-> IF includesAll THEN <<>> ELSE normalizePrefixes(includesRaw),
         excludes |-> normalizePrefixes(excludesRaw)]

(***************************************************************************)
(* Tree builder                                                            *)
(***************************************************************************)
EmptyTree == <<>>

\* Map.prototype.set on an insertion-ordered map kept as a sequence of
\* [key, path]: an existing key keeps its place
MapSet(entries, key, path) ==
    IF \E k \in 1..Len(entries) : entries[k].key = key
    THEN [k \in 1..Len(entries) |->
            IF entries[k].key = key THEN [key |-> key, path |-> path] ELSE entries[k]]
    ELSE Append(entries, [key |-> key, path |-> path])

NewNode(name, path, depth) ==
    [name |-> name, path |-> path, depth |-> depth, indexContent |-> None,
     sectionOrder |-> None, rules |-> <<>>, children |-> <<>>]

PosixKey(folderRelative) == IF folderRelative = <<>> THEN <<>> ELSE toPosix(folderRelative)

ensureNodeUnlinked(t, folderRelative) ==
    LET posixRelative == PosixKey(folderRelative)
        segs == Split(posixRelative, "/")
        depth == IF posixRelative = <<>> THEN 0 ELSE Len(segs)
        name == IF posixRelative = <<>> THEN <<>> ELSE titleCase(segs[Len(segs)])
    IN  IF posixRelative \in DOMAIN t THEN t
        ELSE (posixRelative :> NewNode(name, posixRelative, depth)) @@ t

\* ensureNode returns the tree after the call; the node it returns is
\* tree[PosixKey(folderRelative)]
RECURSIVE ensureNode(_, _)
ensureNode(t, folderRelative) ==
    LET posixRelative == PosixKey(folderRelative)
        segs == Split(posixRelative, "/")
        depth == IF posixRelative = <<>> THEN 0 ELSE Len(segs)
        lastSegment == segs[Len(segs)]
        name == IF posixRelative = <<>> THEN <<>> ELSE titleCase(lastSegment)
        withNode == (posixRelative :> NewNode(name, posixRelative, depth)) @@ t
        parentRelative == Join(SubSeq(segs, 1, Len(segs) - 1), SLASH)
        withParent == ensureNode(withNode, parentRelative)
    IN  IF posixRelative \in DOMAIN t THEN t
        ELSE IF posixRelative = <<>> THEN withNode
        ELSE [withParent EXCEPT ![PosixKey(parentRelative)].children =
                                    MapSet(@, lastSegment, posixRelative)]

IsBlocked(rel, source) ==
    \E k \in 1..Len(source.excludes) : relStartsWith(rel, source.excludes[k])

MatchesIncludesAlways(file, source) == TRUE

\* The include half of the filter: "*", or some include prefix matches
MatchesIncludes(file, source) ==
    \/ source.includesAll
    \/ /\ Len(source.includes) # 0
       /\ \E k \in 1..Len(source.includes) : relStartsWith(file.rel, source.includes[k])

IsIncludedIgnoringExcludes(file, source) == MatchesIncludes(file, source)

\* The predicate of files.filter in appendDirectoryToTree
IsIncluded(file, source) == MatchesIncludes(file, source) /\ ~IsBlocked(file.rel, source)

RECURSIVE FilterIncluded(_, _)
\* files.filter(...) with the predicate above
FilterIncluded(files, source) ==
    IF Len(files) = 0 THEN <<>>
    ELSE IF IsIncluded(files[1], source)
         THEN <<files[1]>> \o FilterIncluded(Tail(files), source)
         ELSE FilterIncluded(Tail(files), source)

RulesNotNamedKeepingAll(rules, baseName) == rules

RECURSIVE RulesNotNamed(_, _)
\* node.rules.filter((rule) => rule.fileName !== baseName)
RulesNotNamed(rules, baseName) ==
    IF Len(rules) = 0 THEN <<>>
    ELSE IF rules[1].fileName # baseName
         THEN <<rules[1]>> \o RulesNotNamed(Tail(rules), baseName)
         ELSE RulesNotNamed(Tail(rules), baseName)

\* fileName.replace(/\.md$/i, '')
StripMd(fileName) ==
    IF EndsWith(ToLowerCase(fileName), MD)
    THEN SubSeq(fileName, 1, Len(fileName) - Len(MD))
    ELSE fileName

IsIndexNameExactly(fileName) == fileName = INDEX \o MD

\* fileName.toLowerCase() === '_index.md'
IsIndexName(fileName) == ToLowerCase(fileName) = INDEX \o MD

FolderOf(rel) ==
    LET segments == Split(toPosix(rel), "/")
    IN  Join(SubSeq(segments, 1, Len(segments) - 1), SLASH)

PlaceFileKeepOld(t, file) ==
    LET fileName == BaseOf(toPosix(file.rel))
        baseName == StripMd(fileName)
        withNode == ensureNode(t, FolderOf(file.rel))
        key == PosixKey(FolderOf(file.rel))
        node == withNode[key]
        disabled == file.enabled = "false"
    IN  IF IsIndexName(fileName)
        THEN IF node.indexContent # None THEN withNode
             ELSE [withNode EXCEPT ![key].indexContent = Some(Trim(file.content))]
        ELSE IF disabled \/ \E k \in 1..Len(node.rules) : node.rules[k].fileName = baseName
             THEN withNode
             ELSE [withNode EXCEPT ![key].rules =
                     Append(@, [title |-> titleCase(baseName),
                                order |-> IF file.order = None THEN 0 ELSE Get(file.order),
                                fileName |-> baseName,
                                content |-> Trim(file.content)])]

PlaceFileNoRemove(t, file) ==
    LET fileName == BaseOf(toPosix(file.rel))
        withNode == ensureNode(t, FolderOf(file.rel))
        key == PosixKey(FolderOf(file.rel))
        disabled == file.enabled = "false"
    IN  IF IsIndexName(fileName)
        THEN [withNode EXCEPT
                ![key].sectionOrder = IF disabled THEN None ELSE file.order,
                ![key].indexContent = IF disabled THEN None ELSE Some(Trim(file.content))]
        ELSE IF disabled THEN withNode
             ELSE [withNode EXCEPT ![key].rules =
                     Append(@, [title |-> titleCase(StripMd(fileName)),
                                order |-> IF file.order = None THEN 0 ELSE Get(file.order),
                                fileName |-> StripMd(fileName),
                                content |-> Trim(file.content)])]

PlaceFileDropSiblings(t, file) ==
    LET fileName == BaseOf(toPosix(file.rel))
        withNode == ensureNode(t, FolderOf(file.rel))
        key == PosixKey(FolderOf(file.rel))
        disabled == file.enabled = "false"
    IN  IF IsIndexName(fileName)
        THEN [withNode EXCEPT
                ![key].sectionOrder = IF disabled THEN None ELSE file.order,
                ![key].indexContent = IF disabled THEN None ELSE Some(Trim(file.content))]
        ELSE IF disabled THEN [withNode EXCEPT ![key].rules = <<>>]
             ELSE [withNode EXCEPT ![key].rules =
                     << [title |-> titleCase(StripMd(fileName)),
                         order |-> IF file.order = None THEN 0 ELSE Get(file.order),
                         fileName |-> StripMd(fileName),
                         content |-> Trim(file.content)] >>]

PlaceFileIgnoringEnabled(t, file) ==
    LET fileName == BaseOf(toPosix(file.rel))
        withNode == ensureNode(t, FolderOf(file.rel))
        key == PosixKey(FolderOf(file.rel))
    IN  IF IsIndexName(fileName)
        THEN [withNode EXCEPT ![key].sectionOrder = file.order,
                              ![key].indexContent = Some(Trim(file.content))]
        ELSE [withNode EXCEPT ![key].rules =
                 Append(RulesNotNamed(@, StripMd(fileName)),
                        [title |-> titleCase(StripMd(fileName)),
                         order |-> IF file.order = None THEN 0 ELSE Get(file.order),
                         fileName |-> StripMd(fileName),
                         content |-> Trim(file.content)])]

PlaceFileMergeIndex(t, file) ==
    LET fileName == BaseOf(toPosix(file.rel))
        withNode == ensureNode(t, FolderOf(file.rel))
        key == PosixKey(FolderOf(file.rel))
        disabled == file.enabled = "false"
        kept == RulesNotNamed(withNode[key].rules, StripMd(fileName))
    IN  IF IsIndexName(fileName)
        THEN [withNode EXCEPT
                ![key].sectionOrder = IF disabled THEN None
                                      ELSE IF file.order = None THEN @ ELSE file.order,
                ![key].indexContent = IF disabled THEN None ELSE Some(Trim(file.content))]
        ELSE IF disabled
             THEN [withNode EXCEPT ![key].rules = kept]
             ELSE [withNode EXCEPT ![key].rules =
                     Append(kept, [title |-> titleCase(StripMd(fileName)),
                                   order |-> IF file.order = None THEN 0 ELSE Get(file.order),
                                   fileName |-> StripMd(fileName),
                                   content |-> Trim(file.content)])]

PlaceFileEnabledFirst(t, file) ==
    LET fileName == BaseOf(toPosix(file.rel))
        key == PosixKey(FolderOf(file.rel))
        baseName == StripMd(fileName)
        withNode == ensureNode(t, FolderOf(file.rel))
    IN  IF file.enabled = "false"
        THEN (IF key \notin DOMAIN t THEN t
              ELSE IF IsIndexName(fileName)
                   THEN [t EXCEPT ![key].sectionOrder = None, ![key].indexContent = None]
                   ELSE [t EXCEPT ![key].rules = RulesNotNamed(@, baseName)])
        ELSE IF IsIndexName(fileName)
             THEN [withNode EXCEPT ![key].sectionOrder = file.order,
                                   ![key].indexContent = Some(Trim(file.content))]
             ELSE [withNode EXCEPT ![key].rules =
                     Append(RulesNotNamed(@, baseName),
                            [title |-> titleCase(baseName),
                             order |-> IF file.order = None THEN 0 ELSE Get(file.order),
                             fileName |-> baseName, content |-> Trim(file.content)])]

\* One iteration of the loop over the included files
PlaceFile(t, file) ==
    LET fileName == BaseOf(toPosix(file.rel))
        folderRelative == FolderOf(file.rel)
        withNode == ensureNode(t, folderRelative)
        key == PosixKey(folderRelative)
        ruleFrontmatterOrder == file.order
        order == IF ruleFrontmatterOrder = None THEN 0 ELSE Get(ruleFrontmatterOrder)
        baseName == StripMd(fileName)
        body == Trim(file.content)
        disabled == file.enabled = "false"
        kept == RulesNotNamed(withNode[key].rules, baseName)
    IN  IF IsIndexName(fileName)
        THEN [withNode EXCEPT
                ![key].sectionOrder = IF disabled THEN None ELSE ruleFrontmatterOrder,
                ![key].indexContent = IF disabled THEN None ELSE Some(body)]
        ELSE IF disabled
             THEN [withNode EXCEPT ![key].rules = kept]
             ELSE [withNode EXCEPT ![key].rules =
                     Append(kept, [title |-> titleCase(baseName), order |-> order,
                                   fileName |-> baseName, content |-> body])]

RECURSIVE PlaceFiles(_, _)
PlaceFiles(t, files) ==
    IF Len(files) = 0 THEN t ELSE PlaceFiles(PlaceFile(t, files[1]), Tail(files))

IncludedFiles(source) == FilterIncluded(walkAllMarkdownFiles(source.pathAbs), source)

\* source is a NormalizedRulesSource
appendDirectoryToTree(t, source) == PlaceFiles(t, IncludedFiles(source))

buildTree(source) == appendDirectoryToTree(EmptyTree, normalizeRulesSource(source))

(***************************************************************************)
(* Tree sorter.  Array.prototype.sort is stable; the comparators are total *)
(* orders on the keys they read, so an insertion sort gives its result.    *)
(***************************************************************************)
CompareRulesByNameOnly(a, b) == localeCompare(a.fileName, b.fileName)

CompareRulesAlwaysBefore(a, b) == -1

CompareRulesByOrderOnly(a, b) == a.order - b.order

\* (a, b) => a.order - b.order || a.fileName.localeCompare(b.fileName)
CompareRules(a, b) ==
    IF a.order - b.order # 0 THEN a.order - b.order
    ELSE localeCompare(a.fileName, b.fileName)

RECURSIVE InsertRule(_, _)
InsertRule(sorted, r) ==
    IF Len(sorted) = 0 THEN <<r>>
    ELSE IF CompareRules(r, sorted[1]) < 0 THEN <<r>> \o sorted
         ELSE <<sorted[1]>> \o InsertRule(Tail(sorted), r)

RECURSIVE SortRules(_)
SortRules(rules) ==
    IF Len(rules) = 0 THEN <<>>
    ELSE InsertRule(SortRules(SubSeq(rules, 1, Len(rules) - 1)), rules[Len(rules)])

CompareChildrenByNameOnly(t, a, b) == localeCompare(a.key, b.key)

\* The comparator of the children's entries; a and b are [key, path]
CompareChildren(t, a, b) ==
    LET aOrder == t[a.path].sectionOrder
        bOrder == t[b.path].sectionOrder
        aHas == aOrder # None
        bHas == bOrder # None
    IN  IF aHas /\ bHas
        THEN (IF Get(aOrder) - Get(bOrder) # 0 THEN Get(aOrder) - Get(bOrder)
              ELSE localeCompare(a.key, b.key))
        ELSE IF aHas THEN -1
        ELSE IF bHas THEN 1
        ELSE localeCompare(a.key, b.key)

RECURSIVE InsertChild(_, _, _)
InsertChild(t, sorted, c) ==
    IF Len(sorted) = 0 THEN <<c>>
    ELSE IF CompareChildren(t, c, sorted[1]) < 0 THEN <<c>> \o sorted
         ELSE <<sorted[1]>> \o InsertChild(t, Tail(sorted), c)

RECURSIVE SortChildren(_, _)
SortChildren(t, entries) ==
    IF Len(entries) = 0 THEN <<>>
    ELSE InsertChild(t, SortChildren(t, SubSeq(entries, 1, Len(entries) - 1)),
                     entries[Len(entries)])

RECURSIVE sortTreeChildren(_, _)
RECURSIVE SortEach(_, _)
\* for (const [, child] of node.children) sortTreeChildren(child)
SortEach(t, entries) ==
    IF Len(entries) = 0 THEN t
    ELSE SortEach(sortTreeChildren(t, entries[1].path), Tail(entries))

\* sortTreeChildren(node) for the node stored at path; returns the tree after it
sortTreeChildren(t, path) ==
    LET sorted == [t EXCEPT ![path].rules = SortRules(@),
                            ![path].children = SortChildren(t, @)]
    IN  SortEach(sorted, sorted[path].children)

(***************************************************************************)
(* Renderer                                                                *)
(***************************************************************************)
DefaultHeadingDepth == 4

MinHeadingDepth == 2

MaxHeadingDepth == 6

Min(a, b) == IF a < b THEN a ELSE b

Max(a, b) == IF a > b THEN a ELSE b

ClampedDepthUnclamped(option) == IF option = None THEN DefaultHeadingDepth ELSE Get(option)

\* Math.min(6, Math.max(2, options?.maxHeadingDepth ?? 4))
ClampedDepth(option) ==
    Min(MaxHeadingDepth,
        Max(MinHeadingDepth, IF option = None THEN DefaultHeadingDepth ELSE Get(option)))

\* The banner line, kept as one symbol: no operation looks inside it
Banner == <<"<!-- Generated by @imjamesbarrett/agent-rules - do not edit directly. -->">>

\* The em dash (U+2014) of `${label} \u2014 ${r.title}`, one character
EmDash == <<"--">>

RECURSIVE TitleSegments(_)
\* segments.filter(Boolean).map((s) => titleCase(s))
TitleSegments(segments) ==
    IF Len(segments) = 0 THEN <<>>
    ELSE IF Len(segments[1]) = 0 THEN TitleSegments(Tail(segments))
         ELSE <<titleCase(segments[1])>> \o TitleSegments(Tail(segments))

titleFromSegments(segments) == Join(TitleSegments(segments), <<" ", "/", " ">>)

HasIndexContent(n) == n.indexContent # None /\ Len(Trim(Get(n.indexContent))) > 0

RuleBlockAlwaysContent(fullTitle, r) ==
    << <<"=", "=", "=", " ">> \o fullTitle \o <<" ", "=", "=", "=">>, <<>>, r.content, <<>> >>

\* lines.push(`=== ${title} ===`, ''); if (r.content.length > 0) lines.push(r.content); lines.push('')
RuleBlock(fullTitle, r) ==
    << <<"=", "=", "=", " ">> \o fullTitle \o <<" ", "=", "=", "=">>, <<>> >>
    \o (IF Len(r.content) > 0 THEN <<r.content>> ELSE <<>>)
    \o << <<>> >>

RECURSIVE RuleBlocks(_, _)
RuleBlocks(rules, label) ==
    IF Len(rules) = 0 THEN <<>>
    ELSE RuleBlock(IF Len(label) > 0 THEN label \o SPACE \o EmDash \o SPACE \o rules[1].title
                   ELSE rules[1].title, rules[1])
         \o RuleBlocks(Tail(rules), label)

PathSegments(n) == IF Len(n.path) > 0 THEN Split(n.path, "/") ELSE <<>>

BeyondSegmentsFromStart(n, maxHeadingDepth) == PathSegments(n)

\* pathSegments.slice(capSegmentIndex), capSegmentIndex = maxHeadingDepth - 1
BeyondSegments(n, maxHeadingDepth) ==
    SubSeq(PathSegments(n), (maxHeadingDepth - 1) + 1, Len(PathSegments(n)))

EmitsHeadingBelowCap(n, maxHeadingDepth) == n.depth > 0 /\ n.depth + 1 < maxHeadingDepth

\* n.depth > 0 && headingLevel <= maxHeadingDepth
EmitsHeading(n, maxHeadingDepth) == n.depth > 0 /\ n.depth + 1 <= maxHeadingDepth

\* The lines renderNode pushes for n itself, before its rules
NodeHead(n, maxHeadingDepth) ==
    LET headingLevel == n.depth + 1
        label == titleFromSegments(BeyondSegments(n, maxHeadingDepth))
    IN  IF EmitsHeading(n, maxHeadingDepth)
        THEN << Repeat(<<"#">>, headingLevel) \o SPACE \o n.name, <<>> >>
             \o (IF HasIndexContent(n) THEN << Get(n.indexContent), <<>> >> ELSE <<>>)
        ELSE IF headingLevel > maxHeadingDepth /\ HasIndexContent(n)
        THEN (IF Len(label) > 0 THEN << <<"(">> \o label \o <<")">> >> ELSE <<>>)
             \o << Get(n.indexContent), <<>> >>
        ELSE <<>>

RuleLabel(n, maxHeadingDepth) ==
    IF n.depth + 1 > maxHeadingDepth
    THEN titleFromSegments(BeyondSegments(n, maxHeadingDepth))
    ELSE <<>>

RECURSIVE renderNode(_, _, _)
RECURSIVE RenderChildren(_, _, _)
RenderChildren(t, entries, maxHeadingDepth) ==
    IF Len(entries) = 0 THEN <<>>
    ELSE renderNode(t, entries[1].path, maxHeadingDepth)
         \o RenderChildren(t, Tail(entries), maxHeadingDepth)

renderNodeRulesLast(t, path, maxHeadingDepth) ==
    NodeHead(t[path], maxHeadingDepth)
    \o RenderChildren(t, t[path].children, maxHeadingDepth)
    \o RuleBlocks(t[path].rules, RuleLabel(t[path], maxHeadingDepth))

\* renderNode(n) for the node stored at path: the lines it pushes
renderNode(t, path, maxHeadingDepth) ==
    NodeHead(t[path], maxHeadingDepth)
    \o RuleBlocks(t[path].rules, RuleLabel(t[path], maxHeadingDepth))
    \o RenderChildren(t, t[path].children, maxHeadingDepth)

KeepBlankLines(lines) == lines

RECURSIVE PopBlankLines(_)
\* while (lines.length > 0 && lines.at(-1) === '') lines.pop()
PopBlankLines(lines) ==
    IF Len(lines) > 0 /\ lines[Len(lines)] = <<>>
    THEN PopBlankLines(SubSeq(lines, 1, Len(lines) - 1))
    ELSE lines

RootNode == NewNode(<<>>, <<>>, 0)

\* The tree renderTree leaves behind: sortTreeChildren(root) sorts it in place
\* (a root made up for a tree without one is not stored)
SortedTree(t) == IF <<>> \in DOMAIN t THEN sortTreeChildren(t, <<>>) ELSE t

\* The lines renderTree pushes for a tree sortTreeChildren has been through,
\* before the trailing blank lines are popped, for the effective heading
\* depth d
RenderSorted(sorted, title, d) ==
    LET root == IF <<>> \in DOMAIN sorted THEN sorted[<<>>] ELSE RootNode
    IN  << Banner, <<>>, <<"#", " ">> \o title, <<>> >>
        \o (IF HasIndexContent(root) THEN << Get(root.indexContent), <<>> >> ELSE <<>>)
        \o RuleBlocks(root.rules, <<>>)
        \o RenderChildren(sorted, root.children, d)

RenderLines(t, title, d) == RenderSorted(SortedTree(t), title, d)

renderTree(t, title, options) ==
    Join(PopBlankLines(RenderLines(t, title, ClampedDepth(options.maxHeadingDepth))), NL) \o NL

(***************************************************************************)
(* Block orchestrator: generateForBlock, one action per step between two   *)
(* awaits.                                                                 *)
(***************************************************************************)
MaxSources == 2

RECURSIVE SeqsUpTo(_, _)
\* The sequences of at most n elements of S
SeqsUpTo(S, n) ==
    IF n = 0 THEN {<<>>}
    ELSE SeqsUpTo(S, n - 1)
         \cup {Append(q, e) : q \in {q \in SeqsUpTo(S, n - 1) : Len(q) = n - 1}, e \in S}

IncludeSpecs == {Str(<<"*">>), Arr(<< <<".", "/", "x">>, <<"a">> \o MD >>)}

ExcludeSpecs == {None, Some(Arr(<< <<"x", "/", "y">>, <<"/", "x", "/", "a">> \o MD >>))}

Sources ==
    {[path |-> p, includes |-> inc, excludes |-> exc] :
        p \in {"shared", "project", "local"}, inc \in IncludeSpecs, exc \in ExcludeSpecs}
    \cup {[path |-> "missing", includes |-> Str(<<"*">>), excludes |-> None]}

\* The sources of the blocks that are rendered at every depth: each directory
\* with "*", and the shared one with an include prefix that matches no file
RenderSources ==
    {[path |-> p, includes |-> Str(<<"*">>), excludes |-> None] :
        p \in {"shared", "project", "local", "deep", "missing"}}
    \cup {[path |-> "shared", includes |-> Arr(<< <<"y">> >>), excludes |-> None]}

DepthOptions == {None} \cup {Some(d) : d \in (MinHeadingDepth - 1)..(MaxHeadingDepth + 1)}

FileOne == <<"x">> \o MD

FileTwo == <<"y">> \o MD

Blocks ==
    {[title |-> <<"T">>, outDir |-> "out", files |-> <<FileOne, FileTwo>>,
      rulesDir |-> srcs, maxHeadingDepth |-> None] : srcs \in SeqsUpTo(Sources, MaxSources)}

\* A title, and one that ends with a line break
Titles == {<<"T">>, <<"T", "\n">>}

RenderBlocks ==
    {[title |-> t, outDir |-> "out", files |-> <<FileOne, FileTwo>>,
      rulesDir |-> srcs, maxHeadingDepth |-> d] :
        t \in Titles, srcs \in SeqsUpTo(RenderSources, MaxSources), d \in DepthOptions}

NoCall == [fn |-> "none", args |-> <<>>, ret |-> None]

Undefined == [type |-> "undefined"]

\* generateForBlock called on its own, not from main
NotFromCli ==
    /\ config = Undefined
    /\ blocks = <<>>
    /\ cliPc = "none"
    /\ index = 0
    /\ exitCode = 0
    /\ ioErrors = 0

Start(b) ==
    /\ block = b
    /\ pc = "start"
    /\ i = 1
    /\ tree = EmptyTree
    /\ markdown = None
    /\ written = <<>>
    /\ warnings = 0
    /\ call = NoCall
    /\ fs = InitialDisk
    /\ NotFromCli

Init == \E b \in Blocks : Start(b)

InitRender == \E b \in RenderBlocks : Start(b)

\* if (!block.rulesDir || block.rulesDir.length === 0) console.warn(...)
WarnIfEmpty ==
    /\ pc = "start"
    /\ warnings' = IF Len(block.rulesDir) = 0 THEN warnings + 1 ELSE warnings
    /\ pc' = "sources"
    /\ UNCHANGED <<block, i, tree, markdown, written, call, fs, cliVars>>

ReturnOnMissingSource ==
    /\ pc = "sources"
    /\ i <= Len(block.rulesDir)
    /\ ~pathExists(normalizeRulesSource(block.rulesDir[i]).pathAbs)
    /\ warnings' = warnings + 1
    /\ pc' = "done"
    /\ UNCHANGED <<block, i, tree, markdown, written, call, fs, cliVars>>

\* A source whose directory does not exist: warn and continue
SkipMissingSource ==
    /\ pc = "sources"
    /\ i <= Len(block.rulesDir)
    /\ ~pathExists(normalizeRulesSource(block.rulesDir[i]).pathAbs)
    /\ warnings' = warnings + 1
    /\ i' = i + 1
    /\ UNCHANGED <<block, pc, tree, markdown, written, call, fs, cliVars>>

\* await appendDirectoryToTree(tree, normalized)
AppendSource ==
    /\ pc = "sources"
    /\ i <= Len(block.rulesDir)
    /\ pathExists(normalizeRulesSource(block.rulesDir[i]).pathAbs)
    /\ tree' = appendDirectoryToTree(tree, normalizeRulesSource(block.rulesDir[i]))
    /\ i' = i + 1
    /\ UNCHANGED <<block, pc, markdown, written, warnings, call, fs, cliVars>>

WithRoot(t) == IF <<>> \in DOMAIN t THEN t ELSE (<<>> :> RootNode) @@ t

\* if (!tree.has('')) tree.set('', ...); const markdown = renderTree(...);
\* await fs.mkdir(outDirectoryResolved, { recursive: true })
Render ==
    /\ pc = "sources"
    /\ i > Len(block.rulesDir)
    /\ markdown' = Some(renderTree(WithRoot(tree), block.title,
                                   [maxHeadingDepth |-> block.maxHeadingDepth]))
    /\ tree' = SortedTree(WithRoot(tree))
    /\ fs' = mkdir(fs, block.outDir)
    /\ pc' = IF Len(block.files) = 0 THEN "done" ELSE "write"
    /\ UNCHANGED <<block, i, written, warnings, call, cliVars>>

WriteFileRenderedAgain ==
    /\ pc = "write"
    /\ written' = Append(written,
                         [name |-> block.files[Len(written) + 1],
                          content |-> renderTree(tree, block.files[Len(written) + 1],
                                                 [maxHeadingDepth |-> block.maxHeadingDepth])])
    /\ fs' = writeFile(fs, block.outDir, block.files[Len(written) + 1],
                        renderTree(tree, block.files[Len(written) + 1],
                                   [maxHeadingDepth |-> block.maxHeadingDepth]))
    /\ pc' = IF Len(written) + 1 = Len(block.files) THEN "done" ELSE "write"
    /\ UNCHANGED <<block, i, tree, markdown, warnings, call, cliVars>>

\* await fs.mkdir(path.dirname(outPath)); await fs.writeFile(outPath, markdown, 'utf8'):
\* one file name of block.files a step
WriteFile ==
    /\ pc = "write"
    /\ written' = Append(written, [name |-> block.files[Len(written) + 1],
                                   content |-> Get(markdown)])
    /\ fs' = writeFile(fs, block.outDir, block.files[Len(written) + 1], Get(markdown))
    /\ pc' = IF Len(written) + 1 = Len(block.files) THEN "done" ELSE "write"
    /\ UNCHANGED <<block, i, tree, markdown, warnings, call, cliVars>>

(***************************************************************************)
(* The exported pure function relStartsWith, called on its own: the        *)
(* arguments are drawn in the initial state and one step applies it.       *)
(***************************************************************************)
MaxPathLen == 3

PathChars == {"x", "y", "/"}

RECURSIVE StringsUpTo(_, _)
\* The strings of at most n characters of chars
StringsUpTo(chars, n) ==
    IF n = 0 THEN {<<>>}
    ELSE StringsUpTo(chars, n - 1)
         \cup {Append(q, c) : q \in {q \in StringsUpTo(chars, n - 1) : Len(q) = n - 1},
                             c \in chars}

IdleBlock ==
    [title |-> <<>>, outDir |-> "out", files |-> <<>>, rulesDir |-> <<>>,
     maxHeadingDepth |-> None]

InitPrefix ==
    /\ block = IdleBlock
    /\ pc = "idle"
    /\ i = 1
    /\ tree = EmptyTree
    /\ markdown = None
    /\ written = <<>>
    /\ warnings = 0
    /\ fs = InitialDisk
    /\ NotFromCli
    /\ \E rel \in StringsUpTo(PathChars, MaxPathLen), prefix \in StringsUpTo(PathChars, MaxPathLen) :
           call = [fn |-> "relStartsWith", args |-> <<rel, prefix>>, ret |-> None]

CallRelStartsWith ==
    /\ call.fn = "relStartsWith"
    /\ call.ret = None
    /\ call' = [call EXCEPT !.ret = Some(relStartsWith(call.args[1], call.args[2]))]
    /\ UNCHANGED <<block, pc, i, tree, markdown, written, warnings, fs, cliVars>>

NextPrefix == CallRelStartsWith

SpecPrefix == InitPrefix /\ [][NextPrefix]_vars

Next ==
    \/ WarnIfEmpty
    \/ SkipMissingSource
    \/ AppendSource
    \/ Render
    \/ WriteFile

Spec == Init /\ [][Next]_vars

SpecRender == InitRender /\ [][Next]_vars

(***************************************************************************)
(* The command line: main of src/src/cli.ts.  A JSON value is a record     *)
(* with its type and, but for null, its payload: a string's characters, an *)
(* array's elements, an object's properties as a function of their names.  *)
(* undefined is what reading an absent property gives.                     *)
(***************************************************************************)
JNull == [type |-> "null"]

JNumber(n) == [type |-> "number", payload |-> n]

JString(s) == [type |-> "string", payload |-> s]

JArray(a) == [type |-> "array", payload |-> a]

JObject(o) == [type |-> "object", payload |-> o]

\* value[key]
Prop(value, key) ==
    IF value.type = "object" /\ key \in DOMAIN value.payload THEN value.payload[key]
    ELSE Undefined

\* typeof value === 'object' && value: arrays are objects, null is falsy
IsObjectValue(value) == value.type \in {"object", "array"}

\* !(!value || typeof value !== 'string')
IsNonEmptyString(value) == value.type = "string" /\ Len(value.payload) > 0

\* typeof entry === 'string' && entry.trim().length > 0, for every entry
AllTrimmedNonEmpty(entries) ==
    \A k \in 1..Len(entries) :
        entries[k].type = "string" /\ Len(Trim(entries[k].payload)) > 0

TrimmedEntries(entries) == [k \in 1..Len(entries) |-> Trim(entries[k].payload)]

\* validateStringList: the trimmed strings, or undefined after an error message
validateStringList(value) ==
    IF value.type = "string"
    THEN (IF Len(Trim(value.payload)) = 0 THEN None ELSE Some(<<Trim(value.payload)>>))
    ELSE IF value.type = "array" /\ Len(value.payload) > 0
    THEN (IF AllTrimmedNonEmpty(value.payload) THEN Some(TrimmedEntries(value.payload)) ELSE None)
    ELSE None

\* validateIncludesValue: a string, an array of strings, or undefined after
\* an error message
validateIncludesValue(value) ==
    IF value.type = "string"
    THEN (IF Len(Trim(value.payload)) = 0 THEN None ELSE Some(Str(Trim(value.payload))))
    ELSE IF value.type = "array" /\ Len(value.payload) > 0
    THEN (IF ~AllTrimmedNonEmpty(value.payload) THEN None
          ELSE LET entries == TrimmedEntries(value.payload)
               IN  IF Len(entries) = 1 /\ entries[1] = <<"*">> THEN Some(Str(<<"*">>))
                   ELSE IF \E k \in 1..Len(entries) : entries[k] = <<"*">> THEN None
                   ELSE Some(Arr(entries)))
    ELSE None

\* path.resolve and path.join on the names the configurations use: the
\* directory of the file system a path string leads to
ResolveDir(p) ==
    CASE p = <<"s">> -> "shared"
      [] p = <<"p">> -> "project"
      [] p = <<"l">> -> "local"
      [] p = <<"d">> -> "deep"
      [] p = <<"o">> -> "out"
      [] OTHER -> "missing"

\* The body of the loop over rawRulesDirectory: the validated source, or
\* nothing after an error message
validateSource(entry) ==
    LET pathValue == Prop(entry, "path")
        includesValue == Prop(entry, "includes")
        excludesValue == Prop(entry, "excludes")
    IN  IF ~IsObjectValue(entry) THEN None
        ELSE IF pathValue.type # "string" THEN None
        ELSE IF Len(Trim(pathValue.payload)) = 0 THEN None
        ELSE IF includesValue = Undefined THEN None
        ELSE IF validateIncludesValue(includesValue) = None THEN None
        ELSE IF excludesValue # Undefined /\ validateStringList(excludesValue) = None THEN None
        ELSE Some([path |-> ResolveDir(Trim(pathValue.payload)),
                   includes |-> Get(validateIncludesValue(includesValue)),
                   excludes |-> IF excludesValue = Undefined THEN None
                                ELSE Some(Arr(Get(validateStringList(excludesValue))))])

\* The body of the loop over the blocks: the block with its validated
\* sources, or nothing after an error message
validateBlock(bUnknown) ==
    LET title == Prop(bUnknown, "title")
        outDir == Prop(bUnknown, "outDir")
        files == Prop(bUnknown, "files")
        rawRulesDirectory == Prop(bUnknown, "rulesDir")
        depth == Prop(bUnknown, "maxHeadingDepth")
    IN  IF ~IsObjectValue(bUnknown) THEN None
        ELSE IF ~IsNonEmptyString(title) THEN None
        ELSE IF ~IsNonEmptyString(outDir) THEN None
        ELSE IF files.type # "array" THEN None
        ELSE IF \E k \in 1..Len(files.payload) : ~IsNonEmptyString(files.payload[k]) THEN None
        ELSE IF rawRulesDirectory.type # "array" THEN None
        ELSE IF Len(rawRulesDirectory.payload) = 0 THEN None
        ELSE IF \E k \in 1..Len(rawRulesDirectory.payload) :
                    validateSource(rawRulesDirectory.payload[k]) = None THEN None
        ELSE Some([title |-> title.payload,
                   outDir |-> ResolveDir(outDir.payload),
                   files |-> [k \in 1..Len(files.payload) |-> files.payload[k].payload],
                   rulesDir |-> [k \in 1..Len(rawRulesDirectory.payload) |->
                                    Get(validateSource(rawRulesDirectory.payload[k]))],
                   maxHeadingDepth |-> IF depth.type = "number" THEN Some(depth.payload)
                                       ELSE None])

\* The blocks as far as the first one that is not valid
validateLeadingBlocks(parsed) ==
    IF parsed.type # "array" THEN None
    ELSE LET valid == {k \in 0..Len(parsed.payload) :
                          \A j \in 1..k : validateBlock(parsed.payload[j]) # None}
             n == CHOOSE k \in valid : \A j \in valid : j <= k
         IN  Some([k \in 1..n |-> Get(validateBlock(parsed.payload[k]))])

\* Lines 122 to 212 of main: the validated blocks, or nothing when main
\* returned with process.exitCode = 1
validateConfig(parsed) ==
    IF parsed.type # "array" THEN None
    ELSE IF \E k \in 1..Len(parsed.payload) : validateBlock(parsed.payload[k]) = None THEN None
    ELSE Some([k \in 1..Len(parsed.payload) |-> Get(validateBlock(parsed.payload[k]))])

MaxBlocks == 2

\* obj with the property key set to value
With(obj, key, value) ==
    [k \in DOMAIN obj \cup {key} |-> IF k = key THEN value ELSE obj[k]]

\* obj without the property key
Omit(obj, key) == [k \in DOMAIN obj \ {key} |-> obj[k]]

SourceAll(p) == [path |-> JString(p), includes |-> JString(<<"*">>)]

\* Writes two files to out from the shared library, whose path is padded
ConfigBlockA ==
    [title |-> JString(<<"T">>), outDir |-> JString(<<"o">>),
     files |-> JArray(<<JString(FileOne), JString(FileTwo)>>),
     rulesDir |-> JArray(<<JObject(SourceAll(<<" ", "s", " ">>))>>)]

\* Writes one file into the directory local, from the project and from a
\* filtered source that is missing, capped at depth 2
ConfigBlockB ==
    [title |-> JString(<<"U">>), outDir |-> JString(<<"l">>),
     files |-> JArray(<<JString(FileOne)>>),
     rulesDir |-> JArray(<<JObject([path |-> JString(<<"p">>),
                                    includes |-> JArray(<<JString(<<"*">>)>>)]),
                           JObject([path |-> JString(<<"m">>),
                                    includes |-> JString(<<"x">>),
                                    excludes |-> JString(<<"x", "/", "y">>)])>>),
     maxHeadingDepth |-> JNumber(2)]

\* Writes no file, creates the directory missing, reads local
ConfigBlockC ==
    [title |-> JString(<<"T">>), outDir |-> JString(<<"m">>),
     files |-> JArray(<<>>),
     rulesDir |-> JArray(<<JObject([path |-> JString(<<"l">>),
                                    includes |-> JString(<<"*">>),
                                    excludes |-> JArray(<<JString(<<" ", "x", "/", "y">>)>>)])>>)]

\* Writes one file to out, reads missing and a part of the shared library
ConfigBlockD ==
    [title |-> JString(<<"V">>), outDir |-> JString(<<"o">>),
     files |-> JArray(<<JString(FileTwo)>>),
     rulesDir |-> JArray(<<JObject(SourceAll(<<"m">>)),
                           JObject([path |-> JString(<<"s">>),
                                    includes |-> JArray(<<JString(<<"x">>),
                                                          JString(<<"a">> \o MD)>>)])>>)]

ValidConfigBlocks ==
    {JObject(ConfigBlockA), JObject(ConfigBlockB), JObject(ConfigBlockC), JObject(ConfigBlockD)}

\* Entries of rulesDir that main rejects
InvalidConfigSources ==
    LET src == SourceAll(<<"s">>)
    IN  {JNull,
         JString(<<"s">>),
         JObject(Omit(src, "path")),
         JObject(With(src, "path", JString(<<>>))),
         JObject(With(src, "path", JString(<<" ">>))),
         JObject(With(src, "path", JNumber(1))),
         JObject(Omit(src, "includes")),
         JObject(With(src, "includes", JNull)),
         JObject(With(src, "includes", JString(<<>>))),
         JObject(With(src, "includes", JArray(<<>>))),
         JObject(With(src, "includes", JArray(<<JString(<<"x">>), JNumber(1)>>))),
         JObject(With(src, "includes", JArray(<<JString(<<"x">>), JString(<<" ">>)>>))),
         JObject(With(src, "includes", JArray(<<JString(<<"*">>), JString(<<"x">>)>>))),
         JObject(With(src, "excludes", JNull)),
         JObject(With(src, "excludes", JNumber(1))),
         JObject(With(src, "excludes", JArray(<<>>))),
         JObject(With(src, "excludes", JArray(<<JString(<<"x">>), JNull>>))),
         JObject(With(src, "excludes", JString(<<" ">>)))}

\* Blocks that main rejects: the block itself, one of its fields, or the
\* entry of rulesDir after a valid one
InvalidConfigBlocks ==
    {JNull,
     JString(<<"T">>),
     JArray(<<>>),
     JObject(Omit(ConfigBlockA, "title")),
     JObject(With(ConfigBlockA, "title", JString(<<>>))),
     JObject(With(ConfigBlockA, "title", JNumber(1))),
     JObject(Omit(ConfigBlockA, "outDir")),
     JObject(With(ConfigBlockA, "outDir", JNull)),
     JObject(Omit(ConfigBlockA, "files")),
     JObject(With(ConfigBlockA, "files", JString(FileOne))),
     JObject(With(ConfigBlockA, "files", JArray(<<JString(FileOne), JString(<<>>)>>))),
     JObject(With(ConfigBlockA, "files", JArray(<<JNumber(1)>>))),
     JObject(Omit(ConfigBlockA, "rulesDir")),
     JObject(With(ConfigBlockA, "rulesDir", JArray(<<>>))),
     JObject(With(ConfigBlockA, "rulesDir", JObject(SourceAll(<<"s">>))))}
    \cup {JObject(With(ConfigBlockA, "rulesDir", JArray(<<JObject(SourceAll(<<"s">>)), bad>>))) :
             bad \in InvalidConfigSources}

\* What JSON.parse may return: a value that is no array, arrays of valid
\* blocks, and those arrays with one block replaced by an invalid one
Configs ==
    {JNull, JObject(ConfigBlockA)}
    \cup {JArray(c) : c \in SeqsUpTo(ValidConfigBlocks, MaxBlocks)}
    \cup UNION {{JArray([c EXCEPT ![k] = bad]) : k \in 1..Len(c), bad \in InvalidConfigBlocks} :
                   c \in SeqsUpTo(ValidConfigBlocks, MaxBlocks)}

InitCli ==
    /\ config \in Configs
    /\ blocks = <<>>
    /\ cliPc = "validate"
    /\ index = 0
    /\ exitCode = 0
    /\ ioErrors = 0
    /\ block = IdleBlock
    /\ pc = "idle"
    /\ i = 1
    /\ tree = EmptyTree
    /\ markdown = None
    /\ written = <<>>
    /\ warnings = 0
    /\ call = NoCall
    /\ fs = InitialDisk

generateVars == <<block, pc, i, tree, markdown, written, warnings, call, fs>>

\* if (!Array.isArray(blocks)) ...; for (const bUnknown of array) { ... }
ValidateConfig ==
    /\ cliPc = "validate"
    /\ IF validateConfig(config) = None
       THEN /\ exitCode' = 1
            /\ cliPc' = "exited"
            /\ UNCHANGED blocks
       ELSE /\ blocks' = Get(validateConfig(config))
            /\ cliPc' = "generate"
            /\ UNCHANGED exitCode
    /\ UNCHANGED <<config, index, ioErrors, generateVars>>

CallGenerateForBlockKeepingTree ==
    /\ cliPc = "generate"
    /\ pc = "idle"
    /\ index < Len(blocks)
    /\ index' = index + 1
    /\ block' = blocks[index + 1]
    /\ pc' = "start"
    /\ i' = 1
    /\ markdown' = None
    /\ written' = <<>>
    /\ UNCHANGED <<tree, warnings, call, fs, config, blocks, cliPc, exitCode, ioErrors>>

\* for (const b of blocks) await generateForBlock(b, outputRoot): the call,
\* as far as const tree = new Map()
CallGenerateForBlock ==
    /\ cliPc = "generate"
    /\ pc = "idle"
    /\ index < Len(blocks)
    /\ index' = index + 1
    /\ block' = blocks[index + 1]
    /\ pc' = "start"
    /\ i' = 1
    /\ tree' = EmptyTree
    /\ markdown' = None
    /\ written' = <<>>
    /\ UNCHANGED <<warnings, call, fs, config, blocks, cliPc, exitCode, ioErrors>>

\* generateForBlock's promise resolves and the loop goes on
ReturnFromGenerateForBlock ==
    /\ cliPc = "generate"
    /\ pc = "done"
    /\ pc' = "idle"
    /\ UNCHANGED <<block, i, tree, markdown, written, warnings, call, fs, cliVars>>

\* The loop is over: main returns and the process ends
MainReturns ==
    /\ cliPc = "generate"
    /\ pc = "idle"
    /\ index = Len(blocks)
    /\ cliPc' = "exited"
    /\ UNCHANGED <<config, blocks, index, exitCode, ioErrors, generateVars>>

\* catch (error) { console.error('[fatal] Unhandled error:', error); process.exitCode = 1 }
Thrown ==
    /\ pc' = "thrown"
    /\ cliPc' = "exited"
    /\ exitCode' = 1
    /\ ioErrors' = ioErrors + 1
    /\ UNCHANGED <<block, i, tree, markdown, written, warnings, call, fs, config, blocks, index>>

\* fs.access rejects for a directory that exists (EACCES): pathExists
\* catches it and returns false, and the source is skipped with a warning
AccessFails ==
    /\ cliPc = "generate"
    /\ pc = "sources"
    /\ i <= Len(block.rulesDir)
    /\ pathExists(normalizeRulesSource(block.rulesDir[i]).pathAbs)
    /\ warnings' = warnings + 1
    /\ i' = i + 1
    /\ ioErrors' = ioErrors + 1
    /\ UNCHANGED <<block, pc, tree, markdown, written, call, fs, config, blocks, cliPc, index,
                   exitCode>>

\* fs.readdir or fs.readFile rejects inside appendDirectoryToTree
ReadFails ==
    /\ cliPc = "generate"
    /\ pc = "sources"
    /\ i <= Len(block.rulesDir)
    /\ pathExists(normalizeRulesSource(block.rulesDir[i]).pathAbs)
    /\ Thrown

\* fs.mkdir or fs.writeFile rejects for the next file of block.files
WriteFails ==
    /\ cliPc = "generate"
    /\ pc = "write"
    /\ Thrown

NextCli ==
    \/ ValidateConfig
    \/ CallGenerateForBlock
    \/ WarnIfEmpty
    \/ SkipMissingSource
    \/ AppendSource
    \/ Render
    \/ WriteFile
    \/ ReturnFromGenerateForBlock
    \/ MainReturns

SpecCli == InitCli /\ [][NextCli]_vars

NextCliIo ==
    \/ ValidateConfig
    \/ CallGenerateForBlock
    \/ WarnIfEmpty
    \/ SkipMissingSource
    \/ AppendSource
    \/ Render
    \/ WriteFile
    \/ ReturnFromGenerateForBlock
    \/ MainReturns
    \/ AccessFails
    \/ ReadFails
    \/ WriteFails

SpecCliIo == InitCli /\ [][NextCliIo]_vars

(***************************************************************************)
(* The exported pure function normalizePrefixes, called on its own.        *)
(***************************************************************************)
MaxPrefixLen == 4

\* "\\" is the one-character string of a backslash
PrefixChars == {"x", ".", "/", "\\", " "}

\* Lists of one prefix, and lists of two short ones
PrefixLists ==
    {<<p>> : p \in StringsUpTo(PrefixChars, MaxPrefixLen)}
    \cup {<<p, q>> : p \in StringsUpTo(PrefixChars, 1), q \in StringsUpTo(PrefixChars, 1)}

InitNormalize ==
    /\ block = IdleBlock
    /\ pc = "idle"
    /\ i = 1
    /\ tree = EmptyTree
    /\ markdown = None
    /\ written = <<>>
    /\ warnings = 0
    /\ fs = InitialDisk
    /\ NotFromCli
    /\ \E prefixes \in PrefixLists :
           call = [fn |-> "normalizePrefixes", args |-> <<prefixes>>, ret |-> None]

CallNormalizePrefixes ==
    /\ call.fn = "normalizePrefixes"
    /\ call.ret = None
    /\ call' = [call EXCEPT !.ret = Some(normalizePrefixes(call.args[1]))]
    /\ UNCHANGED <<block, pc, i, tree, markdown, written, warnings, fs, cliVars>>

NextNormalize == CallNormalizePrefixes

SpecNormalize == InitNormalize /\ [][NextNormalize]_vars

(***************************************************************************)
(* The exported tree functions called on one tree, in any order: ensureNode *)
(* with a folder path, and appendDirectoryToTree with a normalized source. *)
(***************************************************************************)
MaxCalls == 3

\* Arguments of ensureNode: the root, folders of one to three segments, a
\* doubled separator, a trailing one and a leading one
FolderArguments ==
    {<<>>, <<"x">>, <<"y">>, <<"x", "/", "y">>, <<"x", "/", "/", "y">>,
     <<"x", "/", "y", "/", "x">>, <<"x", "/">>, <<"/", "x">>}

TreeSources ==
    {[path |-> p, includes |-> Str(<<"*">>), excludes |-> None] :
        p \in {"shared", "project", "local"}}
    \cup {[path |-> "shared", includes |-> Str(<<"x", "/", "y">>), excludes |-> None]}

InitTree ==
    /\ block = IdleBlock
    /\ pc = "tree"
    /\ i = 0
    /\ tree = EmptyTree
    /\ markdown = None
    /\ written = <<>>
    /\ warnings = 0
    /\ call = NoCall
    /\ fs = InitialDisk
    /\ NotFromCli

\* ensureNode(tree, folderRelative)
CallEnsureNode ==
    /\ pc = "tree"
    /\ i < MaxCalls
    /\ \E folderRelative \in FolderArguments : tree' = ensureNode(tree, folderRelative)
    /\ i' = i + 1
    /\ UNCHANGED <<block, pc, markdown, written, warnings, call, fs, cliVars>>

\* await appendDirectoryToTree(tree, normalizeRulesSource(source))
CallAppendDirectoryToTree ==
    /\ pc = "tree"
    /\ i < MaxCalls
    /\ \E source \in TreeSources :
          tree' = appendDirectoryToTree(tree, normalizeRulesSource(source))
    /\ i' = i + 1
    /\ UNCHANGED <<block, pc, markdown, written, warnings, call, fs, cliVars>>

NextTree ==
    \/ CallEnsureNode
    \/ CallAppendDirectoryToTree

SpecTree == InitTree /\ [][NextTree]_vars

(***************************************************************************)
(* generateForBlock when the walk lists a source directory in another      *)
(* order: readdir gives no order, so the initial state draws the listing   *)
(* of one source directory of the request from rearrangements of its       *)
(* files - every permutation for the local directory, every exchange of    *)
(* two files and the reversal for the others.  The local directory may     *)
(* also hold a second file x/b.MD, which shares the key of x/b.md.         *)
(***************************************************************************)
DirLocalTwins ==
    Append(DirLocal, File(<<"x", "/", "b", ".", "M", "D">>, "unset", None, <<"5">>))

PermutationsOf(entries) ==
    {[k \in 1..Len(entries) |-> entries[f[k]]] :
        f \in {g \in [1..Len(entries) -> 1..Len(entries)] :
                  \A j, k \in 1..Len(entries) : g[j] = g[k] => j = k}}

ExchangesOf(entries) ==
    {[k \in 1..Len(entries) |-> IF k = a THEN entries[b]
                                ELSE IF k = b THEN entries[a] ELSE entries[k]] :
        a, b \in 1..Len(entries)}

Reversed(entries) == [k \in 1..Len(entries) |-> entries[Len(entries) + 1 - k]]

Listings(path) ==
    IF path = "local"
    THEN PermutationsOf(DirLocal) \cup ExchangesOf(DirLocalTwins) \cup {Reversed(DirLocalTwins)}
    ELSE ExchangesOf(InitialDisk[path].entries) \cup {Reversed(InitialDisk[path].entries)}

WalkSources ==
    {[path |-> p, includes |-> Str(<<"*">>), excludes |-> None] :
        p \in {"shared", "project", "local", "deep", "missing"}}

WalkBlocks ==
    {[title |-> <<"T">>, outDir |-> "out", files |-> <<FileOne>>,
      rulesDir |-> srcs, maxHeadingDepth |-> None] :
        srcs \in {<<a>> : a \in WalkSources} \cup {<<a, b>> : a, b \in WalkSources}}

StartOn(b, disk) ==
    /\ block = b
    /\ pc = "start"
    /\ i = 1
    /\ tree = EmptyTree
    /\ markdown = None
    /\ written = <<>>
    /\ warnings = 0
    /\ call = NoCall
    /\ fs = disk
    /\ NotFromCli

InitWalk ==
    \E b \in WalkBlocks :
        \E p \in {b.rulesDir[k].path : k \in 1..Len(b.rulesDir)} \ {"missing"} :
            \E listing \in Listings(p) :
                StartOn(b, [InitialDisk EXCEPT ![p].entries = listing])

SpecWalk == InitWalk /\ [][Next]_vars

(***************************************************************************)
(* What the claims speak of                                                *)
(***************************************************************************)
Range(seq) == {seq[k] : k \in 1..Len(seq)}

\* The included files of source k of the block, in the order they are
\* processed (none for a source whose directory is missing)
SourceFiles(k) ==
    IF pathExists(normalizeRulesSource(block.rulesDir[k]).pathAbs)
    THEN IncludedFiles(normalizeRulesSource(block.rulesDir[k]))
    ELSE <<>>

RECURSIVE AppliedFiles(_)
\* The included files of sources 1..k, in the order they are processed
AppliedFiles(k) == IF k = 0 THEN <<>> ELSE AppliedFiles(k - 1) \o SourceFiles(k)

\* The key a file is stored under: its folder and, for a rule, its base name
\* with .md stripped case-insensitively; every case variant of _index.md is
\* the folder's index
KeyOf(file) ==
    LET fileName == BaseOf(toPosix(file.rel))
    IN  [folder |-> PosixKey(FolderOf(file.rel)),
         isIndex |-> IsIndexName(fileName),
         name |-> IF IsIndexName(fileName) THEN <<>> ELSE StripMd(fileName)]

\* What the tree holds at a key: the folder's index content and section
\* order, or the rules of that name in the folder
StateAt(t, key) ==
    IF key.folder \notin DOMAIN t THEN [index |-> <<None, None>>, rules |-> {}]
    ELSE IF key.isIndex
         THEN [index |-> <<t[key.folder].indexContent, t[key.folder].sectionOrder>>,
               rules |-> {}]
         ELSE [index |-> <<None, None>>,
               rules |-> {r \in Range(t[key.folder].rules) : r.fileName = key.name}]

\* What a file whose key is key supplies there
SuppliedAt(file, key) ==
    IF file.enabled = "false" THEN [index |-> <<None, None>>, rules |-> {}]
    ELSE IF key.isIndex
         THEN [index |-> <<Some(Trim(file.content)), file.order>>, rules |-> {}]
         ELSE [index |-> <<None, None>>,
               rules |-> {[title |-> titleCase(key.name),
                           order |-> IF file.order = None THEN 0 ELSE Get(file.order),
                           fileName |-> key.name,
                           content |-> Trim(file.content)]}]

\* What a file supplies at its key
SuppliedBy(file) == SuppliedAt(file, KeyOf(file))

\* The node of the folder of key exists and holds at key what the file
\* supplies, a rule at most once
SuppliesAt(t, file, key) ==
    /\ key.folder \in DOMAIN t
    /\ StateAt(t, key) = SuppliedAt(file, key)
    /\ Cardinality({k \in 1..Len(t[key.folder].rules) :
                       ~key.isIndex /\ t[key.folder].rules[k].fileName = key.name}) <= 1

\* C1 as stated: for every relative path p included by an applied source, the
\* tree holds at p what the last source that includes p supplies there.
C1_OverrideByPath ==
    \A files \in {AppliedFiles(i - 1)} :
        \A keys \in {[k \in 1..Len(files) |-> KeyOf(files[k])]} :
        \A k \in 1..Len(files) :
            (\A j \in (k + 1)..Len(files) : files[j].rel # files[k].rel)
            => SuppliesAt(tree, files[k], keys[k])

\* C1, amended: for every key (folder plus base name with .md stripped
\* case-insensitively, or the folder's index) of a file included by an
\* applied source, the tree holds at that key what the last included file
\* with that key, in source order and then enumeration order, supplies: its
\* content and order if it is enabled, nothing if it is disabled.
C1_OverrideByKey ==
    \A files \in {AppliedFiles(i - 1)} :
        \A keys \in {[k \in 1..Len(files) |-> KeyOf(files[k])]} :
        \A k \in 1..Len(files) :
            (\A j \in (k + 1)..Len(files) : keys[j] # keys[k])
            => SuppliesAt(tree, files[k], keys[k])

\* Two sources are applied, both include x/B.md, the first enabled and the
\* second disabled, and the rule the first one added is gone.
C1_Witness ==
    /\ pc = "sources"
    /\ i = 3
    /\ \E f \in Range(SourceFiles(1)), g \in Range(SourceFiles(2)) :
          /\ f.rel = g.rel
          /\ ~KeyOf(f).isIndex
          /\ f.enabled # "false"
          /\ g.enabled = "false"
          /\ StateAt(tree, KeyOf(f)).rules = {}

\* C2 as stated: a step that applies a source leaves what an earlier source
\* contributed at relative path p unchanged if the source does not include p.
C2_FrameByPath ==
    [][i' = i + 1 =>
         \A f \in Range(AppliedFiles(i - 1)) :
            (/\ SuppliesAt(tree, f, KeyOf(f))
             /\ \A g \in Range(SourceFiles(i)) : g.rel # f.rel)
            => StateAt(tree', KeyOf(f)) = StateAt(tree, KeyOf(f))]_vars

\* C2, amended: a step that applies a source leaves what an earlier source
\* contributed at a key unchanged if none of the files the source includes
\* has that key (same folder, same base name with .md stripped
\* case-insensitively, or the same folder's index); so a path that is absent,
\* not matched by the includes or matched by the excludes removes nothing.
C2_FrameByKey ==
    [][i' = i + 1 =>
         /\ \A f \in Range(AppliedFiles(i - 1)) :
               (\A g \in Range(SourceFiles(i)) : KeyOf(g) # KeyOf(f))
               => StateAt(tree', KeyOf(f)) = StateAt(tree, KeyOf(f))
         /\ \A folder \in DOMAIN tree :
               /\ folder \in DOMAIN tree'
               /\ (\A g \in Range(SourceFiles(i)) : KeyOf(g).folder # folder)
                  => /\ tree'[folder].rules = tree[folder].rules
                     /\ tree'[folder].indexContent = tree[folder].indexContent
                     /\ tree'[folder].sectionOrder = tree[folder].sectionOrder]_vars

\* The second source holds x/a.md but its excludes block it, and the rule a
\* of x that the first source added is still there with the first's content.
C2_Witness ==
    /\ pc = "sources"
    /\ i = 3
    /\ \E f \in Range(SourceFiles(1)) :
          /\ ~KeyOf(f).isIndex
          /\ f.enabled # "false"
          /\ \E g \in Range(walkAllMarkdownFiles(block.rulesDir[2].path)) :
                g.rel = f.rel /\ IsBlocked(g.rel, normalizeRulesSource(block.rulesDir[2]))
          /\ \A g \in Range(SourceFiles(2)) : KeyOf(g) # KeyOf(f)
          /\ StateAt(tree, KeyOf(f)) = SuppliedBy(f)

\* The files of source k whose relative path matches one of its normalized
\* exclude prefixes
ExcludedFiles(k) ==
    {f \in Range(walkAllMarkdownFiles(block.rulesDir[k].path)) :
        \E p \in Range(normalizePrefixes(
                        IF block.rulesDir[k].excludes = None THEN <<>>
                        ELSE ensureArray(Get(block.rulesDir[k].excludes)))) :
            relStartsWith(f.rel, p)}

RECURSIVE Without(_, _)
Without(files, S) ==
    IF Len(files) = 0 THEN <<>>
    ELSE IF files[1] \in S THEN Without(Tail(files), S)
         ELSE <<files[1]>> \o Without(Tail(files), S)

\* C3: a step that applies a source places no file whose relative path
\* matches one of the source's normalized exclude prefixes, whatever its
\* includes are: the tree after the step is the tree the other included
\* files alone produce.
C3_ExcludesWin ==
    [][(i' = i + 1 /\ pathExists(block.rulesDir[i].path)) =>
         tree' = PlaceFiles(tree, Without(IncludedFiles(normalizeRulesSource(block.rulesDir[i])),
                                          ExcludedFiles(i)))]_vars

\* The first source includes everything ("*") and excludes x/a.md, which its
\* directory holds enabled; after it is applied x has no rule a.
C3_Witness ==
    /\ pc = "sources"
    /\ i = 2
    /\ normalizeRulesSource(block.rulesDir[1]).includesAll
    /\ \E f \in ExcludedFiles(1) :
          /\ f.enabled # "false"
          /\ ~KeyOf(f).isIndex
          /\ KeyOf(f).folder \in DOMAIN tree
          /\ StateAt(tree, KeyOf(f)).rules = {}

\* Whether the segments p are the first segments of s
IsSegmentPrefix(p, s) == Len(p) <= Len(s) /\ \A k \in 1..Len(p) : p[k] = s[k]

\* C4: relStartsWith(rel, p) holds exactly when the "/"-separated segments of
\* p are the leading segments of rel, that is when rel is p or begins with p
\* followed by "/": whole segments, not substrings.
C4_SegmentPrefix ==
    (call.fn = "relStartsWith" /\ call.ret # None)
    => Get(call.ret) = IsSegmentPrefix(Split(call.args[2], "/"), Split(call.args[1], "/"))

\* relStartsWith was called with a prefix that is a substring of the path's
\* first segment but not that segment ("x" against "xy"), and returned false.
C4_Witness ==
    /\ call.fn = "relStartsWith"
    /\ call.args = << <<"x", "y">>, <<"x">> >>
    /\ call.ret = Some(FALSE)

\* C5: applying the source that was just applied once more changes nothing:
\* the same nodes, index content, section order and rule entries.
C5_Idempotent ==
    (pc = "sources" /\ i > 1 /\ pathExists(block.rulesDir[i - 1].path))
    => appendDirectoryToTree(tree, normalizeRulesSource(block.rulesDir[i - 1])) = tree

\* The second source has just been applied on the tree the first one left;
\* it placed several files, one of them a rule the first source had added.
C5_Witness ==
    /\ pc = "sources"
    /\ i = 3
    /\ Len(SourceFiles(2)) > 1
    /\ \E f \in Range(SourceFiles(1)), g \in Range(SourceFiles(2)) :
          /\ KeyOf(f) = KeyOf(g)
          /\ ~KeyOf(g).isIndex
          /\ f.enabled # "false"
          /\ g.enabled # "false"
          /\ block.rulesDir[1] # block.rulesDir[2]

\* The document has been rendered: the block is past renderTree
Rendered == pc \in {"write", "done"}

\* The effective heading depth of the block that was rendered
Depth == ClampedDepth(block.maxHeadingDepth)

\* renderNode walks the rule and child lists of the stored tree in the order
\* sortTreeChildren left them in: the document is what that walk pushes
RenderedInStoredOrder ==
    Get(markdown) = Join(PopBlankLines(RenderSorted(tree, block.title, Depth)), NL) \o NL

\* UTF-16 code units in ascending order, for the characters of file names
CodeUnitOrder ==
    <<"-", ".">> \o UpperLetters \o <<"_">> \o LowerLetters

CodeUnit(c) == CHOOSE k \in 1..Len(CodeUnitOrder) : CodeUnitOrder[k] = c

\* a < b in the case-sensitive lexical (code unit) order
CodeUnitLess(a, b) ==
    CompareWeights([k \in 1..Len(a) |-> CodeUnit(a[k])],
                   [k \in 1..Len(b) |-> CodeUnit(b[k])]) < 0

\* a < b in the order of String.prototype.localeCompare
CollationLess(a, b) == localeCompare(a, b) < 0

\* C6 as stated: in every folder of the rendered tree the rules are in
\* ascending order of `order`, and rules of equal `order` are in ascending
\* file name order by case-sensitive lexical comparison.
C6_RulesByCodeUnit ==
    Rendered =>
        /\ RenderedInStoredOrder
        /\ \A p \in DOMAIN tree : \A j, k \in 1..Len(tree[p].rules) :
              j < k =>
                 \/ tree[p].rules[j].order < tree[p].rules[k].order
                 \/ /\ tree[p].rules[j].order = tree[p].rules[k].order
                    /\ CodeUnitLess(tree[p].rules[j].fileName, tree[p].rules[k].fileName)

\* C6, amended: in every folder of the rendered tree the rules are in
\* ascending order of `order`, and rules of equal `order` are in ascending
\* file name order as localeCompare orders the names (letters without
\* regard to case first, a lower-case letter before its upper-case one).
C6_RulesByCollation ==
    Rendered =>
        /\ RenderedInStoredOrder
        /\ \A p \in DOMAIN tree : \A j, k \in 1..Len(tree[p].rules) :
              j < k =>
                 \/ tree[p].rules[j].order < tree[p].rules[k].order
                 \/ /\ tree[p].rules[j].order = tree[p].rules[k].order
                    /\ CollationLess(tree[p].rules[j].fileName, tree[p].rules[k].fileName)

\* A rendered folder holds three rules: one of a lower order whose name
\* comes last (y), then two of equal order whose names the two comparisons
\* order differently (a before B).
C6_Witness ==
    /\ Rendered
    /\ \E p \in DOMAIN tree : \E j, k, l \in 1..Len(tree[p].rules) :
          /\ j < k /\ k < l
          /\ tree[p].rules[j].order < tree[p].rules[k].order
          /\ CollationLess(tree[p].rules[k].fileName, tree[p].rules[j].fileName)
          /\ tree[p].rules[k].order = tree[p].rules[l].order
          /\ CodeUnitLess(tree[p].rules[l].fileName, tree[p].rules[k].fileName)

\* Whether the child entry c of the tree has a defined sectionOrder
HasSectionOrder(c) == tree[c.path].sectionOrder # None

SectionOrderOf(c) == Get(tree[c.path].sectionOrder)

\* C7: in the children of every node of the rendered tree, a child with a
\* sectionOrder never comes after one without; two children with a
\* sectionOrder are in ascending order of it, and of their segment names if
\* it is equal; two children without are in ascending order of their
\* segment names.
C7_SectionOrder ==
    Rendered =>
        /\ RenderedInStoredOrder
        /\ \A p \in DOMAIN tree : \A j, k \in 1..Len(tree[p].children) :
              LET a == tree[p].children[j]
                  b == tree[p].children[k]
              IN  j < k =>
                     /\ HasSectionOrder(b) => HasSectionOrder(a)
                     /\ (HasSectionOrder(a) /\ HasSectionOrder(b)) =>
                           \/ SectionOrderOf(a) < SectionOrderOf(b)
                           \/ /\ SectionOrderOf(a) = SectionOrderOf(b)
                              /\ CollationLess(a.key, b.key)
                     /\ (~HasSectionOrder(a) /\ ~HasSectionOrder(b)) =>
                           CollationLess(a.key, b.key)

\* A rendered node has an ordered child whose name comes after that of an
\* unordered child behind it, and two unordered children; and a node below
\* the root has an ordered child and an unordered one.
C7_Witness ==
    /\ Rendered
    /\ \E j, k, l \in 1..Len(tree[<<>>].children) :
          /\ j < k /\ k < l
          /\ HasSectionOrder(tree[<<>>].children[j])
          /\ ~HasSectionOrder(tree[<<>>].children[k])
          /\ ~HasSectionOrder(tree[<<>>].children[l])
          /\ CollationLess(tree[<<>>].children[k].key, tree[<<>>].children[j].key)
    /\ \E p \in DOMAIN tree \ {<<>>} : \E j, k \in 1..Len(tree[p].children) :
          /\ HasSectionOrder(tree[p].children[j])
          /\ ~HasSectionOrder(tree[p].children[k])

RECURSIVE LinesOf(_)
\* The lines of a text: what Split(s, "\n") is, computed by halving the text
LinesOf(s) ==
    IF Len(s) <= 8 THEN Split(s, "\n")
    ELSE LET half == Len(s) \div 2
             left == LinesOf(SubSeq(s, 1, half))
             right == LinesOf(SubSeq(s, half + 1, Len(s)))
         IN  SubSeq(left, 1, Len(left) - 1)
             \o << left[Len(left)] \o right[1] >>
             \o Tail(right)

\* The lines of the rendered document
DocLines == LinesOf(Get(markdown))

\* How many lines of the document are the given line
Count(lines, line) == Cardinality({k \in 1..Len(lines) : lines[k] = line})

\* A section heading: level 2 or more (level 1 is the document's title)
IsSectionHeading(line) == StartsWith(line, <<"#", "#">>)

\* The heading line of a folder node: depth + 1 `#`, a space, its name
HeadingOf(n) == Repeat(<<"#">>, n.depth + 1) \o SPACE \o n.name

\* The folder nodes, the root aside, whose heading level is at most d
HeadedNodes(d) == {p \in DOMAIN tree : tree[p].depth > 0 /\ tree[p].depth + 1 <= d}

\* C8: with the effective heading depth d, the section headings of the
\* document are exactly the heading lines, of depth + 1 `#` characters, of
\* the folder nodes other than the root whose level depth + 1 is at most d,
\* once each: no heading has a level above d and a node whose level exceeds
\* d has no heading line.
C8_DepthCap ==
    Rendered =>
        \A lines \in {DocLines} : \A headed \in {HeadedNodes(Depth)} :
            /\ \A k \in 1..Len(lines) :
                  IsSectionHeading(lines[k]) =>
                     \E p \in headed : lines[k] = HeadingOf(tree[p])
            /\ \A p \in headed :
                  Count(lines, HeadingOf(tree[p]))
                     = Cardinality({q \in headed : HeadingOf(tree[q]) = HeadingOf(tree[p])})

\* The default depth 4 was used on a tree with a node at level 4, which got
\* its heading, and nodes at levels 5 and more, which got none.
C8_Witness ==
    /\ Rendered
    /\ block.maxHeadingDepth = None
    /\ \E p \in DOMAIN tree :
          tree[p].depth + 1 = Depth /\ Count(DocLines, HeadingOf(tree[p])) = 1
    /\ \E p \in DOMAIN tree :
          tree[p].depth + 1 > Depth + 1 /\ Count(DocLines, HeadingOf(tree[p])) = 0

\* Whether the node's heading level exceeds the cap d
BeyondCap(n, d) == n.depth + 1 > d

\* The label of a node beyond the cap d: its path segments from index d - 1
\* (counted from 0) to the last, title-cased and joined by " / "
LabelOf(n, d) ==
    Join([k \in 1..(n.depth - d + 1) |-> titleCase(Split(n.path, "/")[d - 1 + k])],
         <<" ", "/", " ">>)

\* The rules of the tree, each as <<path of its node, position in the list>>
RuleSlots == UNION {{<<p, k>> : k \in 1..Len(tree[p].rules)} : p \in DOMAIN tree}

TitleLine(fullTitle) == <<"=", "=", "=", " ">> \o fullTitle \o <<" ", "=", "=", "=">>

IsTitleLine(line) == StartsWith(line, <<"=", "=", "=", " ">>)

LabelLine(label) == <<"(">> \o label \o <<")">>

IsLabelLine(line) == StartsWith(line, <<"(">>)

\* The title line of a rule if every rule beyond the cap carries the label
LabelledTitle(slot) ==
    LET n == tree[slot[1]]
        r == n.rules[slot[2]]
    IN  TitleLine(IF BeyondCap(n, Depth)
                  THEN LabelOf(n, Depth) \o SPACE \o EmDash \o SPACE \o r.title
                  ELSE r.title)

\* The title line of a rule if a rule beyond the cap carries the label only
\* when the label is not empty
LabelledTitleUnlessEmpty(slot) ==
    LET n == tree[slot[1]]
        r == n.rules[slot[2]]
    IN  TitleLine(IF BeyondCap(n, Depth) /\ LabelOf(n, Depth) # <<>>
                  THEN LabelOf(n, Depth) \o SPACE \o EmDash \o SPACE \o r.title
                  ELSE r.title)

\* The nodes beyond the cap with index content that is not blank
IndexedBeyondCap == {p \in DOMAIN tree : BeyondCap(tree[p], Depth) /\ HasIndexContent(tree[p])}

\* Line k is the label line of node p, and the lines after it are the
\* node's index content
LabelPrecedesIndex(lines, k, p) ==
    LET content == Split(Get(tree[p].indexContent), "\n")
    IN  /\ lines[k] = LabelLine(LabelOf(tree[p], Depth))
        /\ k + Len(content) <= Len(lines)
        /\ SubSeq(lines, k + 1, k + Len(content)) = content

\* C9 as stated: every rule of a node beyond the cap is titled
\* "{label} -- {title}" with the label of the node's segments from the cap
\* onward, every other rule by its title alone; the index content of every
\* node beyond the cap follows a line "({label})", and there is no other
\* label line.
C9_LabelAlways ==
    Rendered =>
        \A lines \in {DocLines} :
        \A titles \in {[s \in RuleSlots |-> LabelledTitle(s)]} :
            /\ \A k \in 1..Len(lines) :
                  IsTitleLine(lines[k]) => \E s \in RuleSlots : lines[k] = titles[s]
            /\ \A s \in RuleSlots :
                  Count(lines, titles[s])
                     = Cardinality({q \in RuleSlots : titles[q] = titles[s]})
            /\ \A k \in 1..Len(lines) :
                  IsLabelLine(lines[k]) =>
                     \E p \in IndexedBeyondCap : LabelPrecedesIndex(lines, k, p)
            /\ \A p \in IndexedBeyondCap :
                  \E k \in 1..Len(lines) : LabelPrecedesIndex(lines, k, p)

\* C9, amended: as stated when the label is not empty; a node beyond the
\* cap whose label is empty (its only segment from the cap onward
\* title-cases to the empty string) has its rules titled by their titles
\* alone and no label line before its index content.
C9_LabelUnlessEmpty ==
    Rendered =>
        \A lines \in {DocLines} :
        \A titles \in {[s \in RuleSlots |-> LabelledTitleUnlessEmpty(s)]} :
            /\ \A k \in 1..Len(lines) :
                  IsTitleLine(lines[k]) => \E s \in RuleSlots : lines[k] = titles[s]
            /\ \A s \in RuleSlots :
                  Count(lines, titles[s])
                     = Cardinality({q \in RuleSlots : titles[q] = titles[s]})
            /\ \A k \in 1..Len(lines) :
                  IsLabelLine(lines[k]) =>
                     \E p \in IndexedBeyondCap :
                        LabelOf(tree[p], Depth) # <<>> /\ LabelPrecedesIndex(lines, k, p)
            /\ \A p \in IndexedBeyondCap :
                  LabelOf(tree[p], Depth) # <<>> =>
                     \E k \in 1..Len(lines) : LabelPrecedesIndex(lines, k, p)

\* The rendered tree has, beyond the cap, a node with a rule and a label of
\* several segments, a node with index content and a label, a node with a
\* rule and index content whose label is empty, and below the cap a node
\* with a rule and index content.
C9_Witness ==
    /\ Rendered
    /\ \E p \in DOMAIN tree :
          /\ BeyondCap(tree[p], Depth)
          /\ Len(tree[p].rules) > 0
          /\ tree[p].depth > Depth
          /\ Count(DocLines, LabelledTitleUnlessEmpty(<<p, 1>>)) > 0
    /\ \E p \in IndexedBeyondCap : \E k \in 1..Len(DocLines) :
          LabelOf(tree[p], Depth) # <<>> /\ LabelPrecedesIndex(DocLines, k, p)
    /\ \E p \in IndexedBeyondCap :
          LabelOf(tree[p], Depth) = <<>> /\ Len(tree[p].rules) > 0
    /\ \E p \in DOMAIN tree :
          /\ tree[p].depth > 0
          /\ ~BeyondCap(tree[p], Depth)
          /\ Len(tree[p].rules) > 0
          /\ HasIndexContent(tree[p])

\* C10: the document is the one renderTree produces with the heading depth
\* 4 when the option is absent, 2 when it is below 2, 6 when it is above 6,
\* and the option's value otherwise.
C10_EffectiveDepth ==
    Rendered =>
        LET option == block.maxHeadingDepth
            d == IF option = None THEN 4
                 ELSE IF Get(option) < 2 THEN 2
                 ELSE IF Get(option) > 6 THEN 6
                 ELSE Get(option)
        IN  Get(markdown) = Join(PopBlankLines(RenderSorted(tree, block.title, d)), NL) \o NL

\* A depth above 6 was asked for on a tree with folders at levels 6 and 7:
\* the one at level 6 has its heading, the one at level 7 has none.
C10_Witness ==
    /\ Rendered
    /\ block.maxHeadingDepth # None
    /\ Get(block.maxHeadingDepth) > 6
    /\ \E p \in DOMAIN tree :
          tree[p].depth + 1 = 6 /\ Count(DocLines, HeadingOf(tree[p])) = 1
    /\ \E p \in DOMAIN tree :
          tree[p].depth + 1 = 7 /\ Count(DocLines, HeadingOf(tree[p])) = 0

\* C11: the rendered document is not empty, its last character is a line
\* break, and the character before it is not one (one trailing line break,
\* no blank line before it).
C11_OneTrailingNewline ==
    Rendered =>
        /\ Len(Get(markdown)) > 0
        /\ Get(markdown)[Len(Get(markdown))] = "\n"
        /\ Len(Get(markdown)) > 1 => Get(markdown)[Len(Get(markdown)) - 1] # "\n"

\* The included files of all the sources of the block
AllIncludedFiles == AppliedFiles(Len(block.rulesDir))

\* The document that holds the title alone: the banner line, a blank line,
\* `# {title}` and a line break
TitleOnlyDocument == Banner \o NL \o NL \o <<"#", " ">> \o block.title \o NL

\* C12: when no source of the block includes a file (no source, missing
\* directories, filters that match nothing), the finished block has written
\* every file name of `files`, in order, and each holds exactly the banner
\* line, a blank line, `# {title}` and one line break.
C12_TitleOnly ==
    (pc = "done" /\ Len(AllIncludedFiles) = 0) =>
        /\ Len(written) = Len(block.files)
        /\ \A k \in 1..Len(written) :
              /\ written[k].name = block.files[k]
              /\ written[k].content = TitleOnlyDocument

\* The block has finished with two sources, a missing directory and an
\* existing one that holds Markdown files none of which its includes match,
\* and has written its two files.
C12_Witness ==
    /\ pc = "done"
    /\ Len(block.rulesDir) = 2
    /\ ~pathExists(block.rulesDir[1].path)
    /\ pathExists(block.rulesDir[2].path)
    /\ Len(walkAllMarkdownFiles(block.rulesDir[2].path)) > 0
    /\ Len(AllIncludedFiles) = 0
    /\ Len(written) = 2

\* C13: every file written holds the one rendered text of the block, and
\* when the block is done every file name of `files` has been written, in
\* order, all with the same content.
C13_IdenticalFiles ==
    /\ \A k \in 1..Len(written) : markdown # None /\ written[k].content = Get(markdown)
    /\ pc = "done" =>
          /\ Len(written) = Len(block.files)
          /\ \A k \in 1..Len(written) : written[k].name = block.files[k]
          /\ \A j, k \in 1..Len(written) : written[j].content = written[k].content

\* The block is done, has written two files of different names, and its
\* tree holds rules.
C13_Witness ==
    /\ pc = "done"
    /\ Len(written) = 2
    /\ written[1].name # written[2].name
    /\ \E p \in DOMAIN tree : Len(tree[p].rules) > 0

\* The source the loop is at names a directory that does not exist
AtMissingSource ==
    /\ pc = "sources"
    /\ i <= Len(block.rulesDir)
    /\ ~pathExists(normalizeRulesSource(block.rulesDir[i]).pathAbs)

\* A step of the block can be taken: the warning check, a source to skip or
\* to append, the rendering once the sources are through, or a file of
\* `files` still to write
HasNextStep ==
    \/ pc = "start"
    \/ pc = "sources" /\ i <= Len(block.rulesDir)
    \/ pc = "sources" /\ i = Len(block.rulesDir) + 1
    \/ pc = "write" /\ Len(written) < Len(block.files)

\* C14: at a source whose directory does not exist the step taken warns,
\* leaves the tree as it was and moves on to the next source; the block is
\* never left without a next step before it is done, and when it is done
\* the document is rendered and every file written.
C14_MissingSourceSkipped ==
    [][/\ AtMissingSource =>
             /\ warnings' = warnings + 1
             /\ tree' = tree
             /\ i' = i + 1
             /\ pc' = "sources"
       /\ pc' # "done" => HasNextStep'
       /\ pc' = "done" => (markdown' # None /\ Len(written') = Len(block.files))]_vars

\* A missing directory, second of two sources, has been skipped: the tree
\* still holds what the first source put there, and a warning was given.
C14_Witness ==
    /\ pc = "sources"
    /\ i = 3
    /\ pathExists(block.rulesDir[1].path)
    /\ ~pathExists(block.rulesDir[2].path)
    /\ warnings = 1
    /\ tree = appendDirectoryToTree(EmptyTree, normalizeRulesSource(block.rulesDir[1]))
    /\ \E p \in DOMAIN tree : Len(tree[p].rules) > 0

\* C15: the document is the walk of the tree, every rule of the tree is
\* what an included file that is not disabled supplies, and where the last
\* included file of a key is a disabled rule file, whatever its order, the
\* tree holds no rule of that key: a disabled rule file has no block and no
\* body in the document.
C15_DisabledNeverRendered ==
    Rendered =>
        \A files \in {AllIncludedFiles} :
        \A keys \in {[k \in 1..Len(files) |-> KeyOf(files[k])]} :
            /\ RenderedInStoredOrder
            /\ \A s \in RuleSlots :
                  \E k \in 1..Len(files) :
                     /\ files[k].enabled # "false"
                     /\ ~keys[k].isIndex
                     /\ keys[k].folder = s[1]
                     /\ tree[s[1]].rules[s[2]] \in SuppliedAt(files[k], keys[k]).rules
            /\ \A k \in 1..Len(files) :
                  (/\ files[k].enabled = "false"
                   /\ ~keys[k].isIndex
                   /\ \A j \in (k + 1)..Len(files) : keys[j] # keys[k])
                  => StateAt(tree, keys[k]).rules = {}

\* The rendered block included a disabled rule file that sets an order and
\* one that sets none; no rule of their keys is in the tree, though an
\* earlier source had supplied one.
C15_Witness ==
    /\ Rendered
    /\ \E k, l \in 1..Len(AllIncludedFiles) :
          LET f == AllIncludedFiles[k]
              g == AllIncludedFiles[l]
          IN  /\ f.enabled = "false" /\ ~KeyOf(f).isIndex /\ f.order # None
              /\ g.enabled = "false" /\ ~KeyOf(g).isIndex /\ g.order = None
              /\ StateAt(tree, KeyOf(f)).rules = {}
              /\ StateAt(tree, KeyOf(g)).rules = {}
              /\ \E j \in 1..(k - 1) :
                    /\ KeyOf(AllIncludedFiles[j]) = KeyOf(f)
                    /\ AllIncludedFiles[j].enabled # "false"

\* The options the block is rendered with
BlockOptions == [maxHeadingDepth |-> block.maxHeadingDepth]

Reverse(seq) == [k \in 1..Len(seq) |-> seq[Len(seq) + 1 - k]]

\* The same tree with the entries of every children map inserted in the
\* opposite order
ChildrenReversed(t) == [p \in DOMAIN t |-> [t[p] EXCEPT !.children = Reverse(@)]]

\* C16: rendering the tree again, as the first rendering left it (sorted in
\* place), returns the same document; and so does rendering an equal tree
\* whose children maps were filled in another order.
C16_Deterministic ==
    Rendered =>
        /\ renderTree(tree, block.title, BlockOptions) = Get(markdown)
        /\ renderTree(ChildrenReversed(tree), block.title, BlockOptions) = Get(markdown)

\* The rendered tree has a node with several rules and a node with several
\* children, which the first rendering moved: the tree before it (the
\* sources applied to an empty tree) differs from the one it left.
C16_Witness ==
    /\ Rendered
    /\ \E p \in DOMAIN tree : Len(tree[p].rules) > 1
    /\ \E p \in DOMAIN tree : Len(tree[p].children) > 1
    /\ PlaceFiles(EmptyTree, AllIncludedFiles) # tree
    /\ ChildrenReversed(tree) # tree

\* The position of the child entry with the given key in the children of
\* the node at parent
ChildIndex(parent, key) ==
    CHOOSE k \in 1..Len(tree[parent].children) : tree[parent].children[k].key = key

\* The first position at which the segment lists ps and qs differ
FirstDifference(ps, qs) ==
    CHOOSE m \in 1..Len(ps) : ps[m] # qs[m] /\ \A k \in 1..(m - 1) : ps[k] = qs[k]

\* Pre-order on the nodes other than the root: p comes before q if p is an
\* ancestor of q, or if, where their paths part, p's branch is the earlier
\* child
Precedes(p, q) ==
    LET ps == Split(p, "/")
        qs == Split(q, "/")
    IN  IF IsSegmentPrefix(ps, qs) THEN ps # qs
        ELSE IF IsSegmentPrefix(qs, ps) THEN FALSE
        ELSE LET m == FirstDifference(ps, qs)
                 parent == Join(SubSeq(ps, 1, m - 1), SLASH)
             IN  ChildIndex(parent, ps[m]) < ChildIndex(parent, qs[m])

\* The nodes other than the root, in pre-order
NodesInPreOrder ==
    LET nodes == DOMAIN tree \ {<<>>}
    IN  [k \in 1..Cardinality(nodes) |->
            CHOOSE p \in nodes : Cardinality({q \in nodes : Precedes(q, p)}) = k - 1]

\* The lines of a rule's block under the given title line
BlockOf(titleLine, r) ==
    <<titleLine, <<>>>> \o (IF Len(r.content) > 0 THEN <<r.content>> ELSE <<>>) \o << <<>> >>

RECURSIVE Flatten(_)
Flatten(seqs) == IF Len(seqs) = 0 THEN <<>> ELSE seqs[1] \o Flatten(Tail(seqs))

\* What a node other than the root contributes itself: its heading and
\* index content (beyond the cap: its label line, if any, and index
\* content), then the blocks of its rules
OwnLines(p) ==
    LET n == tree[p]
        indexLines == IF HasIndexContent(n) THEN << Get(n.indexContent), <<>> >> ELSE <<>>
        head == IF ~BeyondCap(n, Depth) THEN << HeadingOf(n), <<>> >> \o indexLines
                ELSE IF HasIndexContent(n) /\ LabelOf(n, Depth) # <<>>
                THEN << LabelLine(LabelOf(n, Depth)) >> \o indexLines
                ELSE indexLines
    IN  head \o Flatten([k \in 1..Len(n.rules) |->
                            BlockOf(LabelledTitleUnlessEmpty(<<p, k>>), n.rules[k])])

\* Banner, title heading, the root's index content and the root's rules
HeaderLines ==
    LET root == tree[<<>>]
    IN  << Banner, <<>>, <<"#", " ">> \o block.title, <<>> >>
        \o (IF HasIndexContent(root) THEN << Get(root.indexContent), <<>> >> ELSE <<>>)
        \o Flatten([k \in 1..Len(root.rules) |-> BlockOf(TitleLine(root.rules[k].title),
                                                         root.rules[k])])

\* C17: the document is banner, title heading, root index content, root
\* rule blocks, and then what each other node contributes (heading, index
\* content, own rule blocks) with the nodes in pre-order: a node before its
\* descendants, a whole subtree before the next sibling, siblings in the
\* sorted child order.
C17_PreOrder ==
    Rendered =>
        \A nodes \in {NodesInPreOrder} :
            Get(markdown)
               = Join(PopBlankLines(HeaderLines
                                    \o Flatten([k \in 1..Len(nodes) |-> OwnLines(nodes[k])])),
                      NL) \o NL

\* The rendered tree has root index content and root rules, a section with
\* index content, rules of its own and a child with rules, and a sibling
\* section after it.
C17_Witness ==
    /\ Rendered
    /\ HasIndexContent(tree[<<>>])
    /\ Len(tree[<<>>].rules) > 0
    /\ \E j, k \in 1..Len(tree[<<>>].children) :
          LET n == tree[tree[<<>>].children[j].path]
          IN  /\ j < k
              /\ HasIndexContent(n)
              /\ Len(n.rules) > 0
              /\ \E c \in 1..Len(n.children) : Len(tree[n.children[c].path].rules) > 0

\* An entry of rulesDir with one of the defects the validation is said to
\* reject: no non-empty path, includes missing or neither a non-empty string
\* nor an array of non-empty strings, "*" beside other includes, excludes
\* that is neither a string nor an array of strings
HasDefectSource(entry) ==
    LET pathValue == Prop(entry, "path")
        inc == Prop(entry, "includes")
        exc == Prop(entry, "excludes")
    IN  \/ ~IsNonEmptyString(pathValue)
        \/ inc = Undefined
        \/ /\ ~IsNonEmptyString(inc)
           /\ ~(inc.type = "array" /\ \A k \in 1..Len(inc.payload) : IsNonEmptyString(inc.payload[k]))
        \/ /\ inc.type = "array"
           /\ Len(inc.payload) > 1
           /\ \E k \in 1..Len(inc.payload) : inc.payload[k] = JString(<<"*">>)
        \/ /\ exc # Undefined
           /\ exc.type # "string"
           /\ ~(exc.type = "array" /\ \A k \in 1..Len(exc.payload) : exc.payload[k].type = "string")

\* A block with one of the defects the validation is said to reject
HasDefectBlock(b) ==
    LET rulesDir == Prop(b, "rulesDir")
    IN  \/ b.type # "object"
        \/ \E key \in {"title", "outDir", "files"} : Prop(b, key) = Undefined
        \/ rulesDir = Undefined
        \/ rulesDir = JArray(<<>>)
        \/ /\ rulesDir.type = "array"
           /\ \E k \in 1..Len(rulesDir.payload) : HasDefectSource(rulesDir.payload[k])

IsInvalidConfig ==
    /\ config.type = "array"
    /\ \E k \in 1..Len(config.payload) : HasDefectBlock(config.payload[k])

C19_IoFailureAborts ==
    ioErrors > 0 => (pc = "thrown" /\ cliPc = "exited" /\ exitCode # 0)

\* The directories a block reads
SourceDirs(b) == {normalizeRulesSource(b.rulesDir[k]).pathAbs : k \in 1..Len(b.rulesDir)}

RECURSIVE TreeAlone(_, _)
\* The tree of the first k sources of b on the file system as it was before
\* any request ran
TreeAlone(b, k) ==
    IF k = 0 THEN EmptyTree
    ELSE LET source == normalizeRulesSource(b.rulesDir[k])
         IN  IF InitialDisk[source.pathAbs].exists
             THEN PlaceFiles(TreeAlone(b, k - 1),
                             FilterIncluded(MarkdownEntries(InitialDisk[source.pathAbs].entries),
                                            source))
             ELSE TreeAlone(b, k - 1)

\* The document of b had no other request been processed before it
DocumentAlone(b) ==
    renderTree(WithRoot(TreeAlone(b, Len(b.rulesDir))), b.title,
               [maxHeadingDepth |-> b.maxHeadingDepth])

NoEarlierOutputInSources ==
    \A j \in 1..(index - 1) : blocks[j].outDir \notin SourceDirs(block)

TreeAfter(files, m) == PlaceFiles(EmptyTree, SubSeq(files, 1, m))

\* What processing an index file leaves as the folder's section order and
\* index content
IndexSetBy(file) ==
    IF file.enabled = "false" THEN [sectionOrder |-> None, indexContent |-> None]
    ELSE [sectionOrder |-> file.order, indexContent |-> Some(Trim(file.content))]

IndexOf(n) == [sectionOrder |-> n.sectionOrder, indexContent |-> n.indexContent]

\* C21: right after an included index file of a folder is processed, the
\* folder's section order is the file's order if it has one (0 included)
\* and undefined otherwise, and its index content is the trimmed body; both
\* are undefined if the file is disabled.  Whatever an earlier index file of
\* the folder had set is gone, and the tree of the request holds what the
\* last index file of each folder set.
C21_IndexOverwrites ==
    \A files \in {AppliedFiles(i - 1)} :
        \A keys \in {[k \in 1..Len(files) |-> KeyOf(files[k])]} :
        \A m \in 1..Len(files) :
            keys[m].isIndex =>
                /\ IndexOf(TreeAfter(files, m)[keys[m].folder]) = IndexSetBy(files[m])
                /\ (\A j \in (m + 1)..Len(files) : keys[j] # keys[m])
                   => IndexOf(tree[keys[m].folder]) = IndexSetBy(files[m])

\* Two sources have been applied; a folder's index had an order and content
\* from the first, the second one's index of that folder is disabled, and
\* the folder now has neither; another folder's index has the explicit
\* order 0, which is stored as 0.
C21_Witness ==
    /\ i = 3
    /\ \E f \in Range(SourceFiles(1)), g \in Range(SourceFiles(2)) :
          /\ KeyOf(f).isIndex
          /\ KeyOf(g) = KeyOf(f)
          /\ f.enabled # "false" /\ f.order # None /\ Len(Trim(f.content)) > 0
          /\ g.enabled = "false"
          /\ tree[KeyOf(g).folder].sectionOrder = None
          /\ tree[KeyOf(g).folder].indexContent = None
    /\ \E p \in DOMAIN tree : tree[p].sectionOrder = Some(0)

\* The file's name is _index.md up to the case of its letters
NamedIndex(file) ==
    \A name \in {BaseOf(toPosix(file.rel))} :
        /\ Len(name) = Len(INDEX \o MD)
        /\ \A k \in 1..Len(name) : ToLowerChar(name[k]) = (INDEX \o MD)[k]

\* The rule lists of the nodes of t
RulesOf(t) == [p \in DOMAIN t |-> t[p].rules]

\* C22: processing a file named _index.md, in any case, changes no rule
\* list (a node it creates has none): no rule of any node comes from such a
\* file, and the rendered document has as many "=== ... ===" lines as the
\* tree has rules.  The file sets or clears the index content and section
\* order of its own folder and of no other node.
C22_IndexIsNoRule ==
    \A files \in {AppliedFiles(i - 1)} :
        /\ \A m \in 1..Len(files) :
              NamedIndex(files[m]) =>
                  \A before \in {TreeAfter(files, m - 1)}, after \in {TreeAfter(files, m)} :
                      /\ \A p \in DOMAIN before : after[p].rules = before[p].rules
                      /\ \A p \in DOMAIN after \ DOMAIN before : after[p].rules = <<>>
                      /\ \A p \in DOMAIN before \ {PosixKey(FolderOf(files[m].rel))} :
                            IndexOf(after[p]) = IndexOf(before[p])
        /\ \A p \in DOMAIN tree : \A k \in 1..Len(tree[p].rules) :
              \E m \in 1..Len(files) :
                  /\ ~NamedIndex(files[m])
                  /\ PosixKey(FolderOf(files[m].rel)) = p
                  /\ StripMd(BaseOf(toPosix(files[m].rel))) = tree[p].rules[k].fileName
        /\ Rendered =>
              Cardinality({k \in 1..Len(DocLines) : IsTitleLine(DocLines[k])})
                 = Cardinality(RuleSlots)

\* The request is done; an enabled index file whose name is not in lower
\* case was the last index of its folder, which has rules and now holds
\* that file's body as index content.
C22_Witness ==
    /\ pc = "done"
    /\ \E m \in 1..Len(AppliedFiles(i - 1)) :
          \A f \in {AppliedFiles(i - 1)[m]} :
              /\ NamedIndex(f)
              /\ BaseOf(toPosix(f.rel)) # INDEX \o MD
              /\ f.enabled # "false"
              /\ \A j \in (m + 1)..Len(AppliedFiles(i - 1)) :
                    KeyOf(AppliedFiles(i - 1)[j]) # KeyOf(f)
              /\ tree[PosixKey(FolderOf(f.rel))].indexContent = Some(Trim(f.content))
              /\ Len(tree[PosixKey(FolderOf(f.rel))].rules) > 0

\* The path of the parent: the segments but the last, joined
ParentPath(p) == LET segs == Split(p, "/") IN Join(SubSeq(segs, 1, Len(segs) - 1), SLASH)

LastSegment(p) == LET segs == Split(p, "/") IN segs[Len(segs)]

RECURSIVE ReachableFrom(_)
\* The paths reached from the paths in S along children entries
ReachableFrom(S) ==
    LET next == S \cup UNION {{tree[p].children[k].path : k \in 1..Len(tree[p].children)} :
                                  p \in S}
    IN  IF next = S THEN S ELSE ReachableFrom(next)

\* Every node is stored under its own path, its depth is the number of its
\* path's segments, its parent holds it under its last segment, the root
\* exists if any node does and every node is reached from it
TreeIsWellFormed ==
    /\ \A p \in DOMAIN tree :
          /\ tree[p].path = p
          /\ tree[p].depth = IF p = <<>> THEN 0 ELSE Len(Split(p, "/"))
          /\ p # <<>> =>
                /\ ParentPath(p) \in DOMAIN tree
                /\ \E k \in 1..Len(tree[ParentPath(p)].children) :
                      tree[ParentPath(p)].children[k] = [key |-> LastSegment(p), path |-> p]
    /\ DOMAIN tree # {} => <<>> \in DOMAIN tree
    /\ DOMAIN tree # {} => ReachableFrom({<<>>}) = DOMAIN tree

PassesFilter(file, source) ==
    /\ \/ source.includesAll
       \/ \E k \in 1..Len(source.includes) :
             IsSegmentPrefix(Split(source.includes[k], "/"), Split(file.rel, "/"))
    /\ ~\E k \in 1..Len(source.excludes) :
             IsSegmentPrefix(Split(source.excludes[k], "/"), Split(file.rel, "/"))

\* The folders of the Markdown files that pass the filter of one of the
\* first n sources of the block
PassedFolders(n) ==
    UNION {{PosixKey(FolderOf(f.rel)) :
               f \in {g \in Range(walkAllMarkdownFiles(block.rulesDir[k].path)) :
                         PassesFilter(g, normalizeRulesSource(block.rulesDir[k]))}} :
             k \in {j \in 1..n : pathExists(block.rulesDir[j].path)}}

\* The folder p and the folders above it, the root included
AncestorsOf(p) ==
    LET segs == Split(p, "/")
    IN  {Join(SubSeq(segs, 1, k), SLASH) : k \in 0..Len(segs)}

\* C24: while the sources of a request are applied, the folders that have a
\* node are exactly the folders of the files that passed the filter of an
\* applied source and the folders above those; the children of every node
\* are nodes of the tree, so a folder without a passing file at or below it
\* is in no children mapping.  (Once the request is rendered the root has a
\* node in any case.)
C24_NodeExistence ==
    pc \in {"sources", "write", "done"} =>
        \A expected \in {UNION {AncestorsOf(p) : p \in PassedFolders(i - 1)}} :
            /\ DOMAIN tree = IF pc = "sources" THEN expected ELSE expected \cup {<<>>}
            /\ \A p \in DOMAIN tree : \A k \in 1..Len(tree[p].children) :
                  /\ tree[p].children[k].path \in expected
                  /\ ParentPath(tree[p].children[k].path) = p

\* The first source has been applied; its directory holds files in x and
\* in x/y, its excludes block every file of x/y, and the tree has a node
\* for x without a child and no node for x/y.
C24_Witness ==
    /\ pc = "sources"
    /\ i = 2
    /\ pathExists(block.rulesDir[1].path)
    /\ \E f \in Range(walkAllMarkdownFiles(block.rulesDir[1].path)) :
          PosixKey(FolderOf(f.rel)) = <<"x", "/", "y">>
    /\ <<"x">> \in DOMAIN tree
    /\ tree[<<"x">>].children = <<>>
    /\ <<"x", "/", "y">> \notin DOMAIN tree

\* C25: every prefix normalizePrefixes returns is non-empty, has no
\* backslash and no "//", and begins neither with "./" nor with "/".
C25_CanonicalPrefixes ==
    (call.fn = "normalizePrefixes" /\ call.ret # None) =>
        \A k \in 1..Len(Get(call.ret)) :
            \A prefix \in {Get(call.ret)[k]} :
                /\ Len(prefix) > 0
                /\ \A c \in 1..Len(prefix) : prefix[c] # "\\"
                /\ ~Includes(prefix, <<"/", "/">>)
                /\ ~StartsWith(prefix, <<".", "/">>)
                /\ ~StartsWith(prefix, <<"/">>)

\* The lines of the document followed by the blank lines renderTree popped
\* at its end: two are enough for the block of a last rule without content
PaddedLines == DocLines \o << <<>>, <<>> >>

\* The block occurs in the lines, and what follows it is no blank line,
\* unless only blank lines follow as far as the end
OccursAsBlock(lines, blockLines) ==
    \E k \in 1..(Len(lines) - Len(blockLines) + 1) :
        /\ SubSeq(lines, k, k + Len(blockLines) - 1) = blockLines
        /\ \/ \A j \in (k + Len(blockLines))..Len(lines) : lines[j] = <<>>
           \/ lines[k + Len(blockLines)] # <<>>

\* The block with no line for an empty content
BlockWithContentUnlessEmpty(slot) ==
    << LabelledTitleUnlessEmpty(slot), <<>> >>
    \o (IF Len(tree[slot[1]].rules[slot[2]].content) > 0
        THEN LinesOf(tree[slot[1]].rules[slot[2]].content) ELSE <<>>)
    \o << <<>> >>

BodyBetween(s) ==
    LET ks == {k \in 1..Len(s) : ~IsSpace(s[k])}
    IN  IF ks = {} THEN <<>>
        ELSE SubSeq(s, CHOOSE k \in ks : \A j \in ks : k <= j,
                       CHOOSE k \in ks : \A j \in ks : j <= k)

\* The included file processed last among those of the key; keys holds the
\* key of each file
LastOfKey(files, keys, key) ==
    LET ks == {k \in 1..Len(files) : keys[k] = key}
    IN  files[CHOOSE k \in ks : \A j \in ks : j <= k]

HasKey(keys, key) == \E k \in 1..Len(keys) : keys[k] = key

\* C27: in the rendered tree, the content of every rule and the index
\* content of every folder is the body of the file processed last for it,
\* from the body's first character that is no whitespace to its last, and
\* nothing else removed; and every such content that is not empty stands in
\* the document character for character, on lines of its own.
C27_ContentRoundTrip ==
    Rendered =>
        \A files \in {AllIncludedFiles} :
        \A keys \in {[k \in 1..Len(files) |-> KeyOf(files[k])]} :
            /\ \A s \in RuleSlots :
                  \A key \in {[folder |-> s[1], isIndex |-> FALSE,
                               name |-> tree[s[1]].rules[s[2]].fileName]} :
                      /\ HasKey(keys, key)
                      /\ tree[s[1]].rules[s[2]].content = BodyBetween(LastOfKey(files, keys, key).content)
                      /\ Len(tree[s[1]].rules[s[2]].content) > 0 =>
                            Includes(Get(markdown), NL \o NL \o tree[s[1]].rules[s[2]].content \o NL)
            /\ \A p \in DOMAIN tree :
                  tree[p].indexContent # None =>
                      \A key \in {[folder |-> p, isIndex |-> TRUE, name |-> <<>>]} :
                          /\ HasKey(keys, key)
                          /\ Get(tree[p].indexContent) = BodyBetween(LastOfKey(files, keys, key).content)
                          /\ Len(Get(tree[p].indexContent)) > 0 =>
                                Includes(Get(markdown), NL \o Get(tree[p].indexContent) \o NL)

\* The rendered tree holds a rule whose body has a blank line inside and an
\* index whose body began and ended with whitespace, and a folder whose index
\* body was whitespace alone.
C27_Witness ==
    /\ Rendered
    /\ \E s \in RuleSlots : Includes(tree[s[1]].rules[s[2]].content, NL \o NL)
    /\ \E p \in DOMAIN tree :
          /\ tree[p].indexContent # None
          /\ Len(Get(tree[p].indexContent)) > 0
          /\ \E f \in Range(AllIncludedFiles) :
                /\ KeyOf(f) = [folder |-> p, isIndex |-> TRUE, name |-> <<>>]
                /\ IsSpace(f.content[1]) /\ IsSpace(f.content[Len(f.content)])
                /\ f.content # Get(tree[p].indexContent)
                /\ BodyBetween(f.content) = Get(tree[p].indexContent)
    /\ \E p \in DOMAIN tree : tree[p].indexContent = Some(<<>>)

\* The positions of the rules of a name in a rule list
RulesNamed(rules, name) == {k \in 1..Len(rules) : rules[k].fileName = name}

\* The rules of the other names, in their order
RulesOfOtherNames(rules, name) ==
    LET Other(r) == r.fileName # name
    IN  SelectSeq(rules, Other)

\* The rules of a folder in a tree, none if the folder has no node
RulesAt(t, folder) == IF folder \in DOMAIN t THEN t[folder].rules ELSE <<>>

RECURSIVE TreesAfter(_, _)
\* The trees the loop over the files goes through, from t: the m-th is the
\* tree before the m-th file is processed, the last the tree after all
TreesAfter(t, files) ==
    IF Len(files) = 0 THEN <<t>>
    ELSE <<t>> \o TreesAfter(PlaceFile(t, files[1]), Tail(files))

\* No rule list of the tree holds two rules of one fileName
NoTwoRulesOfOneName(t) ==
    \A p \in DOMAIN t : \A j, k \in 1..Len(t[p].rules) :
        t[p].rules[j].fileName = t[p].rules[k].fileName => j = k

\* C28: in the tree of every state no rule list holds two rules of one
\* fileName; and right after an included rule file is processed, its folder
\* holds no rule of its fileName if the file is disabled and exactly one,
\* the last of the list, if it is not, while the rules of every other name
\* stay as they were, in their order.
C28_RuleKeyUnique ==
    /\ NoTwoRulesOfOneName(tree)
    /\ \A files \in {AppliedFiles(i - 1)} :
          \A keys \in {[k \in 1..Len(files) |-> KeyOf(files[k])]} :
          \A trees \in {TreesAfter(EmptyTree, files)} :
          \A m \in 1..Len(files) :
              ~keys[m].isIndex =>
                  \A before \in {RulesAt(trees[m], keys[m].folder)},
                     after \in {RulesAt(trees[m + 1], keys[m].folder)} :
                      /\ RulesNamed(after, keys[m].name) =
                            IF files[m].enabled = "false" THEN {} ELSE {Len(after)}
                      /\ RulesOfOtherNames(before, keys[m].name)
                            = SubSeq(after, 1, Len(after) - Cardinality(RulesNamed(after, keys[m].name)))

\* Two sources are applied; a rule file of the second replaced the rule of
\* its fileName the first had left, another, disabled, removed one, and the
\* folder kept a rule of another name.
C28_Witness ==
    /\ i = 3
    /\ \E f, g \in Range(SourceFiles(2)) :
          /\ ~KeyOf(f).isIndex /\ ~KeyOf(g).isIndex
          /\ KeyOf(f).folder = KeyOf(g).folder
          /\ f.enabled # "false" /\ g.enabled = "false"
          /\ \E h \in Range(SourceFiles(1)) :
                KeyOf(h) = KeyOf(f) /\ h.enabled # "false" /\ h.content # f.content
          /\ \E h \in Range(SourceFiles(1)) : KeyOf(h) = KeyOf(g) /\ h.enabled # "false"
          /\ Cardinality(RulesNamed(tree[KeyOf(f).folder].rules, KeyOf(f).name)) = 1
          /\ RulesNamed(tree[KeyOf(g).folder].rules, KeyOf(g).name) = {}
          /\ Len(tree[KeyOf(f).folder].rules) > 1

\* No two files of the list have one key
DistinctKeys(files) ==
    \A j, k \in 1..Len(files) : KeyOf(files[j]) = KeyOf(files[k]) => j = k

\* The files of a directory in the order they are written down above,
\* whatever order the disk lists them in
ListedFirst(path) ==
    CHOOSE d \in {DirShared, DirProject, DirLocal, DirLocalTwins, DirDeep} :
        Range(d) = Range(Disk[path].entries)

\* The included files of source k in that order
ReferenceFiles(k) ==
    LET source == normalizeRulesSource(block.rulesDir[k])
    IN  IF pathExists(source.pathAbs)
        THEN FilterIncluded(MarkdownEntries(ListedFirst(source.pathAbs)), source)
        ELSE <<>>

RECURSIVE ReferenceTree(_)
ReferenceTree(k) ==
    IF k = 0 THEN EmptyTree ELSE PlaceFiles(ReferenceTree(k - 1), ReferenceFiles(k))

\* C29: if no source of the request includes two files of one key, the
\* document is the one rendered from the sources' files taken in one fixed
\* order, whatever order the walk listed them in.
C29_OrderIndependent ==
    (Rendered /\ \A k \in 1..Len(block.rulesDir) : DistinctKeys(SourceFiles(k))) =>
        Get(markdown) = renderTree(WithRoot(ReferenceTree(Len(block.rulesDir))), block.title,
                                   [maxHeadingDepth |-> block.maxHeadingDepth])

\* A request of two sources is rendered; no source has two files of one
\* key, and the walk listed two rules of one folder and two files of
\* different folders the other way round than the fixed order has them.
C29_Witness ==
    /\ Rendered
    /\ Len(block.rulesDir) = 2
    /\ \A k \in 1..Len(block.rulesDir) : DistinctKeys(SourceFiles(k))
    /\ \E k \in 1..Len(block.rulesDir) :
          \E files \in {SourceFiles(k)}, reference \in {ReferenceFiles(k)} :
              /\ \E a, b \in 1..Len(files) :
                    /\ a < b
                    /\ ~KeyOf(files[a]).isIndex /\ ~KeyOf(files[b]).isIndex
                    /\ files[a].enabled # "false" /\ files[b].enabled # "false"
                    /\ KeyOf(files[a]).folder = KeyOf(files[b]).folder
                    /\ \E c, d \in 1..Len(reference) :
                          c > d /\ reference[c] = files[a] /\ reference[d] = files[b]
    /\ Len(tree[<<>>].children) > 1

\* The folders that hold included files, all of them disabled
FoldersOfDisabledOnly ==
    LET files == AllIncludedFiles
    IN  {KeyOf(files[k]).folder : k \in 1..Len(files)}
        \ {KeyOf(files[k]).folder : k \in {j \in 1..Len(files) : files[j].enabled # "false"}}

\* The document with the heading line of the j-th node in pre-order and a
\* blank line as all that node contributes
WithHeadingAlone(nodes, j) ==
    Join(PopBlankLines(HeaderLines
                       \o Flatten([k \in 1..(j - 1) |-> OwnLines(nodes[k])])
                       \o << HeadingOf(tree[nodes[j]]), <<>> >>
                       \o Flatten([k \in 1..(Len(nodes) - j) |-> OwnLines(nodes[j + k])])),
         NL) \o NL

\* C30: in the rendered tree a folder whose included files are all disabled
\* has a node, and so has each of its ancestors; the node has no rule and no
\* index content, and if it is not the root and its heading level is within
\* the cap, it contributes to the document its heading line and a blank
\* line and nothing else.
C30_DisabledCreatesFolder ==
    Rendered =>
        \A p \in FoldersOfDisabledOnly :
            /\ p \in DOMAIN tree
            /\ AncestorsOf(p) \subseteq DOMAIN tree
            /\ tree[p].rules = <<>>
            /\ tree[p].indexContent = None
            /\ (p # <<>> /\ ~BeyondCap(tree[p], Depth)) =>
                  \A nodes \in {NodesInPreOrder} :
                      \E j \in 1..Len(nodes) :
                          nodes[j] = p /\ Get(markdown) = WithHeadingAlone(nodes, j)

\* The rendered request has a folder whose only file is a disabled rule and,
\* below it, a folder whose only file is a disabled index, both with a
\* heading, and sections with content before and after them.
C30_Witness ==
    /\ Rendered
    /\ \E p, q \in FoldersOfDisabledOnly :
          /\ p # <<>> /\ q # <<>> /\ p # q
          /\ p \in AncestorsOf(q)
          /\ ~BeyondCap(tree[p], Depth) /\ ~BeyondCap(tree[q], Depth)
          /\ \E f \in Range(AllIncludedFiles) : KeyOf(f).folder = p /\ ~KeyOf(f).isIndex
          /\ \E f \in Range(AllIncludedFiles) : KeyOf(f).folder = q /\ KeyOf(f).isIndex
          /\ \E j, k, m \in 1..Len(DocLines) :
                /\ j < k /\ k < m
                /\ IsTitleLine(DocLines[j])
                /\ DocLines[k] = HeadingOf(tree[p])
                /\ DocLines[k + 2] = HeadingOf(tree[q])
                /\ IsTitleLine(DocLines[m])

=============================================================================
